---- MODULE Spec2Model ----
(***************************************************************************)
(* State-machine model of the facial monitoring core of                    *)
(* src/face/enhanced_head_monitor.py: the blink detector, the head pose    *)
(* calibration, the head direction / screen attention classifier, the      *)
(* gaze fixation / saccade tracker, the attention and stress scores and    *)
(* the trial records; and of the HTTP bridge of                            *)
(* src/face/face_monitor_api.py with its background monitoring threads.    *)
(*                                                                         *)
(* Time is counted in ticks of 1/3 ms, so that the frame period of a       *)
(* 30 fps stream (1/30 s) is the integer FramePeriod = 100 ticks and every *)
(* difference of two time.time() readings is an integer.  Values the code  *)
(* keeps in milliseconds (blink durations) are kept in ticks: the code's   *)
(* 400 ms limit is 1200 ticks.  Quotients the code computes by float       *)
(* division are kept as exact fractions <<numerator, denominator>>.        *)
(***************************************************************************)
EXTENDS Integers, Sequences, FiniteSets, TLC

VARIABLES
    now,                        \* the last reading of time.time()
    op,                         \* the operation that ran last
    steps,                      \* number of operations run so far
    \* ---- BlinkDetector
    blink_count,
    blink_in_progress,
    blink_start_time,
    blink_duration,
    frames_below_threshold,
    consecutive_frames,
    blink_timestamps,
    blink_durations,
    micro_sleep_count,
    detector_start_time,        \* BlinkDetector.start_time
    blink_results,              \* the dictionary process_landmarks returned
    eye_widths,                 \* history: the two eye widths measured on the last frame
    frame_kind,                 \* history: what the last blink frame was
    closed_run,                 \* history: both-closed frames since the last open one
    scen,                       \* history: progress through the 5-closed-1-open scenario
    \* ---- FacialMonitoringAgent: calibration and raw pose
    background_mode,
    running,
    calibrated,
    calibration_samples,
    calibration_yaw_offset,
    calibration_pitch_offset,
    calibration_roll_offset,
    calibration_start_time,
    raw_yaw,
    raw_pitch,
    raw_roll,
    face_detected,
    in_pose,                    \* history: the pose the last frame's geometry gave
    calibration_result,         \* history: what process_calibration returned last
    \* ---- FacialMonitoringAgent: head direction and screen attention
    head_yaw,
    head_pitch,
    current_direction,
    looking_at_monitor,
    screen_attention_history,
    head_movement_count,
    micro_movement_count,
    gaze_shift_count,
    prev_head_yaw,
    prev_head_pitch,
    prev_head_direction,
    prev_looking_at_monitor,
    pattern,                    \* the periodic stream of filtered poses fed in
    raw_flag,                   \* history: the raw looking flag of the last frame
    flips,                      \* history: number of flips of looking_at_monitor
    \* ---- FacialMonitoringAgent: gaze tracking (the gaze_tracking dictionary)
    current_blink,              \* the agent's copy of the blink results
    blink_metrics,              \* blink_last_time, blink_intervals, blink_durations
    current_gaze,               \* (current_x, current_y), in hundredths
    prev_gaze,                  \* (prev_x, prev_y), <<>> while the keys are absent
    fixation_point,             \* <<>> stands for None
    fixation_start_time,
    fixation_duration,
    fixation_count,
    total_fixation_time,
    avg_fixation_time,
    saccade_count,
    saccade_times,
    fixation_history,
    screen_attention_ratio,
    last_known_in_bounds,
    gaze_kind,                  \* history: "hold" or "break", the branch of line 841 taken last
    gaze_far,                   \* history: the last gaze distance reached fixation_threshold
    hold_start,                 \* history: time of the first frame of the unbroken run of holds
    held_for,                   \* history: time from that frame to the last hold frame
    \* ---- FacialMonitoringAgent: frames, logging and scores
    frame_count,
    log_row,                    \* what log_data computed when it ran last
    session_scores,             \* what the calculate_*_score methods returned for the summary
    raised,                     \* the method whose exception left process_frame, or "none"
    landmark_count,             \* history: length of the landmark list of the last frame
    moved,                      \* history: line 934 found a new direction on the last frame
    jittered,                   \* history: the pose moved by 1 to 3 degrees on the last frame
    quiet_frames,               \* history: frames that went by before a face was first seen
    \* ---- FacialMonitoringAgent: trials
    current_trial_id,
    trial_start_time,
    is_trial_active,
    trial_data,                 \* the dictionary trial id -> record of the trial
    trials_data,                \* the list of trial results
    trial_return,               \* history: the last call of start_trial / end_trial and what it returned
    \* ---- FaceMonitorAPI (the bridge)
    is_monitoring,
    current_session_id,         \* 0 stands for None
    api_current_trial_id,       \* FaceMonitorAPI.current_trial_id, 0 stands for None
    api_trial_data,             \* FaceMonitorAPI.trial_data
    metrics_objects,            \* the dictionaries made to hold metrics, in order of creation
    current_metrics,            \* the one self.current_metrics refers to (an index)
    threads,                    \* the background monitoring threads, in order of creation
    last_read,                  \* history: what the last request handler read of the metrics
    session_ended,              \* history: an end_session has completed and no session began since
    session_data,               \* the session dictionary: its session_id and whether end_time is set
    response,                   \* history: the status of the last response, "success" or "error"
    awaiting_end,               \* history: index of the record of the last successful start_trial
                                \* that no end_trial request has followed, 0 if there is none
    \* ---- HeadPoseKalmanFilter (cv2.KalmanFilter(6, 3)), fixed point
    state_post,                 \* statePost: [pos |-> <<yaw, pitch, roll>>, vel |-> <<...>>]
    error_cov_post,             \* errorCovPost: the 2 x 2 block <<p11, p12, p21, p22>> of an axis
    kalman_fed,                 \* history: the measurements of all updates so far
    kalman_correction           \* history: corrected minus predicted angle, per axis

clockVars == <<now, op, steps>>

blinkVars == <<blink_count, blink_in_progress, blink_start_time, blink_duration,
               frames_below_threshold, consecutive_frames, blink_timestamps,
               blink_durations, micro_sleep_count, detector_start_time,
               blink_results, eye_widths, frame_kind, closed_run, scen>>

calVars == <<background_mode, running, calibrated, calibration_samples,
             calibration_yaw_offset, calibration_pitch_offset,
             calibration_roll_offset, calibration_start_time,
             raw_yaw, raw_pitch, raw_roll, face_detected, in_pose,
             calibration_result>>

dirVars == <<head_yaw, head_pitch, current_direction, looking_at_monitor,
             screen_attention_history, head_movement_count,
             micro_movement_count, gaze_shift_count, prev_head_yaw,
             prev_head_pitch, prev_head_direction, prev_looking_at_monitor,
             pattern, raw_flag, flips>>

gazeState == <<current_gaze, prev_gaze, fixation_point,
               fixation_start_time, fixation_duration, fixation_count,
               total_fixation_time, avg_fixation_time, saccade_count,
               saccade_times, fixation_history, screen_attention_ratio,
               last_known_in_bounds, gaze_kind, gaze_far, hold_start, held_for>>

gazeVars == <<current_blink, blink_metrics, gazeState>>

scoreVars == <<frame_count, log_row, session_scores, raised, landmark_count,
               moved, jittered, quiet_frames>>

trialVars == <<current_trial_id, trial_start_time, is_trial_active, trial_data,
               trials_data, trial_return>>

bridgeVars == <<is_monitoring, current_session_id, api_current_trial_id,
                api_trial_data, metrics_objects, current_metrics, threads,
                last_read, session_ended, session_data, response, awaiting_end>>

kalmanVars == <<state_post, error_cov_post, kalman_fed, kalman_correction>>

vars == <<clockVars, blinkVars, calVars, dirVars, gazeVars, scoreVars,
          trialVars, bridgeVars, kalmanVars>>

(***************************************************************************)
(* Time and fractions                                                      *)
(***************************************************************************)
TicksPerMs == 3
FramePeriod == 100                  \* 1/30 s
MicroSleepLimit == 400 * TicksPerMs \* "blink_duration > 400" (ms)
TimestampWindow == 60 * 1000 * TicksPerMs
StartOfTime == 1000                 \* time.time() at construction, > 0

Frac(n, d) == <<n, d>>
FracEq(a, b) == a[1] * b[2] = b[1] * a[2]
FracLess(a, b) == a[1] * b[2] < b[1] * a[2]
FracSub(a, b) == <<a[1] * b[2] - b[1] * a[2], a[2] * b[2]>>
FracAdd(a, b) == <<a[1] * b[2] + b[1] * a[2], a[2] * b[2]>>
FracDiv(a, n) == <<a[1], a[2] * n>>
\* a + b over the larger denominator when the other divides it
FracPlus(a, b) ==
    IF a[2] % b[2] = 0 THEN <<a[1] + b[1] * (a[2] \div b[2]), a[2]>>
    ELSE IF b[2] % a[2] = 0 THEN <<a[1] * (b[2] \div a[2]) + b[1], b[2]>>
    ELSE FracAdd(a, b)
FracIsZero(a) == a[1] = 0
Zero == Frac(0, 1)

Abs(x) == IF x < 0 THEN -x ELSE x

RECURSIVE SumAxis(_, _)
SumAxis(samples, axis) ==
    IF samples = <<>> THEN 0
    ELSE Head(samples)[axis] + SumAxis(Tail(samples), axis)

RECURSIVE CountTrue(_)
CountTrue(s) ==
    IF s = <<>> THEN 0
    ELSE (IF Head(s) THEN 1 ELSE 0) + CountTrue(Tail(s))

LastN(s, n) == IF Len(s) > n THEN SubSeq(s, Len(s) - n + 1, Len(s)) ELSE s

RECURSIVE FracSum(_)
FracSum(s) ==
    IF s = <<>> THEN Zero ELSE FracPlus(Head(s), FracSum(Tail(s)))

\* int(x) of a fraction that is not negative
FracInt(a) == a[1] \div a[2]

Occurrences(s, x) == Cardinality({i \in DOMAIN s : s[i] = x})
FirstIndex(s, x) == CHOOSE i \in DOMAIN s : s[i] = x /\ \A j \in 1..(i - 1) : s[j] # x

(***************************************************************************)
(* Bounds of the model                                                     *)
(***************************************************************************)
MaxBlinkSteps == 7
MaxCalSteps == 7
MaxDirFrames == 41
MaxPeriod == 4
MaxGazeFrames == 4
MaxFrameSteps == 6
MaxRateSteps == 7
MaxTrialSteps == 6
MaxBridgeSteps == 8
MaxKalmanSteps == 11
MaxFixFrames == 6

(***************************************************************************)
(* BlinkDetector                                                           *)
(***************************************************************************)
EarThreshold == Frac(1, 5)          \* ear_threshold = 0.2
DefaultConsecutiveFrames == 2
MaxBlinkDurations == 20

EyeHeights == {1, 3}                \* distance(top, bottom), in landmark units
EyeWidths == {0, 10}                \* distance(left, right); 0 is the degenerate box
BlinkGaps == {FramePeriod, 13 * FramePeriod}
ConsecutiveFramesChoices == {DefaultConsecutiveFrames, 3}

\* lines 104-110: the ratio is 0.0 unless the width is positive
EyeAspectRatioMutant(height, width) == Frac(height, width)

EyeAspectRatio(height, width) ==
    IF width > 0 THEN Frac(height, width) ELSE Zero

\* lines 116-117
EyeClosed(ear) == FracLess(ear, EarThreshold)

\* line 125, the test that starts a blink (the counter is already incremented)
BlinkStartsMutant(in_progress, frames, needed) ==
    ~in_progress /\ frames >= needed - 1

BlinkStarts(in_progress, frames, needed) ==
    ~in_progress /\ frames >= needed

\* line 130, the test that ends a blink on a frame that is not both-closed
BlinkEndsMutant(in_progress) == TRUE

BlinkEnds(in_progress) == in_progress

\* line 133, in ticks
BlinkDurationMutant(t, start) == (t - start) + FramePeriod

BlinkDuration(t, start) == t - start

\* line 145, the duration in ticks
IsMicroSleepMutant(duration) == duration >= FramePeriod

IsMicroSleep(duration) == duration > MicroSleepLimit

\* line 149
RecentTimestamps(ts, t) ==
    SelectSeq(ts, LAMBDA x : t - x <= TimestampWindow)

\* lines 154-158: len(blink_timestamps) / min(session minutes, 1)
BlinkRate(n, elapsed) ==
    IF elapsed > 0
    THEN Frac(n * TimestampWindow,
              IF elapsed < TimestampWindow THEN elapsed ELSE TimestampWindow)
    ELSE Zero

\* lines 161-163
AvgBlinkDuration(ds) ==
    IF ds # <<>> THEN Frac(SumAxis([i \in 1..Len(ds) |-> <<ds[i]>>], 1), Len(ds))
    ELSE Zero

ScenarioNext(s, kind, dt) ==
    IF s \in 0..4 /\ kind = "closed" /\ dt = FramePeriod THEN s + 1
    ELSE IF s = 5 /\ kind = "open" /\ dt = FramePeriod THEN 6
    ELSE -1

InitDetector ==
    /\ blink_count = 0
    /\ blink_in_progress = FALSE
    /\ blink_start_time = 0
    /\ blink_duration = 0
    /\ frames_below_threshold = 0
    /\ blink_timestamps = <<>>
    /\ blink_durations = <<>>
    /\ micro_sleep_count = 0
    /\ detector_start_time = StartOfTime
    /\ blink_results = [error |-> FALSE, blinking |-> FALSE,
                        left_closed |-> FALSE, right_closed |-> FALSE,
                        count |-> 0, rate_per_minute |-> Zero,
                        avg_duration |-> Zero, last_duration |-> 0,
                        micro_sleeps |-> 0,
                        left_closed_ratio |-> Zero, right_closed_ratio |-> Zero]
    /\ eye_widths = <<>>
    /\ frame_kind = "none"
    /\ closed_run = 0
    /\ scen = 0

\* BlinkDetector.process_landmarks, lines 84-177, at time t: the landmarks
\* carry the eight eye points, given here by the four distances the code
\* takes of them
BlinkUpdate(t, dt, lh, lw, rh, rw) ==
    LET left_ear == EyeAspectRatio(lh, lw)
        right_ear == EyeAspectRatio(rh, rw)
        left_closed == EyeClosed(left_ear)
        right_closed == EyeClosed(right_ear)
        both == left_closed /\ right_closed
        frames == frames_below_threshold + 1
        starts == both /\ BlinkStarts(blink_in_progress, frames, consecutive_frames)
        ends == ~both /\ BlinkEnds(blink_in_progress)
        duration == BlinkDuration(t, blink_start_time)
        in_progress == IF both THEN (blink_in_progress \/ starts) ELSE FALSE
        count == IF ends THEN blink_count + 1 ELSE blink_count
        last == IF ends THEN duration ELSE blink_duration
        stamps == IF ends THEN RecentTimestamps(Append(blink_timestamps, t), t)
                  ELSE blink_timestamps
        durations == IF ends THEN LastN(Append(blink_durations, duration), MaxBlinkDurations)
                     ELSE blink_durations
        micro == IF ends /\ IsMicroSleep(duration) THEN micro_sleep_count + 1
                 ELSE micro_sleep_count
        kind == IF both THEN "closed" ELSE "open"
    IN  /\ frames_below_threshold' = IF both THEN frames ELSE 0
        /\ blink_in_progress' = in_progress
        /\ blink_start_time' = IF starts THEN t ELSE blink_start_time
        /\ blink_count' = count
        /\ blink_duration' = last
        /\ blink_timestamps' = stamps
        /\ blink_durations' = durations
        /\ micro_sleep_count' = micro
        /\ blink_results' = [error |-> FALSE, blinking |-> in_progress,
                             left_closed |-> left_closed, right_closed |-> right_closed,
                             count |-> count,
                             rate_per_minute |-> BlinkRate(Len(stamps), t - detector_start_time),
                             avg_duration |-> AvgBlinkDuration(durations),
                             last_duration |-> last,
                             micro_sleeps |-> micro,
                             left_closed_ratio |-> left_ear,
                             right_closed_ratio |-> right_ear]
        /\ eye_widths' = <<lw, rw>>
        /\ frame_kind' = kind
        /\ closed_run' = IF both THEN closed_run + 1 ELSE 0
        /\ scen' = ScenarioNext(scen, kind, dt)
        /\ UNCHANGED <<consecutive_frames, detector_start_time>>

\* one call of process_landmarks, dt after the last operation
ProcessLandmarks(dt, lh, lw, rh, rw) ==
    /\ now' = now + dt
    /\ op' = "process_landmarks"
    /\ steps' = steps + 1
    /\ BlinkUpdate(now + dt, dt, lh, lw, rh, rw)

\* BlinkDetector.process_landmarks, lines 84-94 and 179-193: a landmark list
\* that lacks one of the eye indices raises inside the try; no field of the
\* detector is touched and the error dictionary is returned
BlinkFailureMutant ==
    /\ blink_results' = [error |-> TRUE, blinking |-> FALSE,
                         left_closed |-> FALSE, right_closed |-> FALSE,
                         count |-> 0, rate_per_minute |-> Zero,
                         avg_duration |-> Zero, last_duration |-> 0,
                         left_closed_ratio |-> Zero, right_closed_ratio |-> Zero]
    /\ eye_widths' = <<>>
    /\ frame_kind' = "error"
    /\ scen' = -1
    /\ blink_count' = 0
    /\ micro_sleep_count' = 0
    /\ UNCHANGED <<blink_in_progress, blink_start_time, blink_duration,
                   frames_below_threshold, consecutive_frames, blink_timestamps,
                   blink_durations, detector_start_time, closed_run>>

BlinkFailure ==
    /\ blink_results' = [error |-> TRUE, blinking |-> FALSE,
                         left_closed |-> FALSE, right_closed |-> FALSE,
                         count |-> blink_count, rate_per_minute |-> Zero,
                         avg_duration |-> Zero, last_duration |-> 0,
                         left_closed_ratio |-> Zero, right_closed_ratio |-> Zero]
    /\ eye_widths' = <<>>
    /\ frame_kind' = "error"
    /\ scen' = -1
    /\ UNCHANGED <<blink_count, blink_in_progress, blink_start_time, blink_duration,
                   frames_below_threshold, consecutive_frames, blink_timestamps,
                   blink_durations, micro_sleep_count, detector_start_time,
                   closed_run>>

\* one call of process_landmarks that takes the error path
ProcessLandmarksError(dt) ==
    /\ now' = now + dt
    /\ op' = "process_landmarks"
    /\ steps' = steps + 1
    /\ BlinkFailure

(***************************************************************************)
(* Head pose calibration                                                   *)
(***************************************************************************)
CalibrationCountdown == 3 * 1000 * TicksPerMs   \* calibration_countdown = 3 s

\* poses (yaw, pitch, roll) the landmark geometry of a frame can give
Poses == {<<0, 0, 0>>, <<4, -2, 1>>, <<6, 2, -3>>}
CalGaps == {FramePeriod, CalibrationCountdown}

RECURSIVE FracSumAxis(_, _)
FracSumAxis(samples, axis) ==
    IF samples = <<>> THEN Zero
    ELSE FracAdd(Head(samples)[axis], FracSumAxis(Tail(samples), axis))

\* lines 667-679: the per-axis sum divided by n = len(calibration_samples)
CalibrationMeanMutant(samples, axis) ==
    FracDiv(FracSumAxis(samples, axis), Len(samples) + 1)

CalibrationMean(samples, axis) ==
    FracDiv(FracSumAxis(samples, axis), Len(samples))

\* lines 740-746: the geometric pose, less the offsets if calibrated
DetectHeadPoseMutant(geom, is_calibrated, yaw_offset, pitch_offset, roll_offset) ==
    <<FracSub(Frac(geom[1], 1), yaw_offset),
      FracSub(Frac(geom[2], 1), pitch_offset),
      FracSub(Frac(geom[3], 1), roll_offset)>>

DetectHeadPosePartial(geom, is_calibrated, yaw_offset, pitch_offset, roll_offset) ==
    IF is_calibrated
    THEN <<FracSub(Frac(geom[1], 1), yaw_offset),
           FracSub(Frac(geom[2], 1), pitch_offset),
           Frac(geom[3], 1)>>
    ELSE <<Frac(geom[1], 1), Frac(geom[2], 1), Frac(geom[3], 1)>>

DetectHeadPose(geom, is_calibrated, yaw_offset, pitch_offset, roll_offset) ==
    IF is_calibrated
    THEN <<FracSub(Frac(geom[1], 1), yaw_offset),
           FracSub(Frac(geom[2], 1), pitch_offset),
           FracSub(Frac(geom[3], 1), roll_offset)>>
    ELSE <<Frac(geom[1], 1), Frac(geom[2], 1), Frac(geom[3], 1)>>

\* line 659: still inside the countdown
InCountdownMutant(elapsed) == elapsed <= CalibrationCountdown

InCountdown(elapsed) == elapsed < CalibrationCountdown

InitCalibration ==
    /\ running = FALSE
    /\ calibrated = FALSE
    /\ calibration_samples = <<>>
    /\ calibration_yaw_offset = Zero
    /\ calibration_pitch_offset = Zero
    /\ calibration_roll_offset = Zero
    /\ calibration_start_time = 0
    /\ raw_yaw = Zero
    /\ raw_pitch = Zero
    /\ raw_roll = Zero
    /\ face_detected = FALSE
    /\ in_pose = <<0, 0, 0>>
    /\ calibration_result = "none"

\* FacialMonitoringAgent.start_calibration, lines 645-651
StartCalibration ==
    /\ calibration_samples' = <<>>
    /\ calibrated' = FALSE
    /\ calibration_start_time' = now'

\* FacialMonitoringAgent.run, lines 1313-1327: the session starts, with a
\* calibration in interactive mode and with none in background mode
Run ==
    /\ ~running
    /\ op = "init"
    /\ now' = now + FramePeriod
    /\ op' = "run"
    /\ steps' = steps + 1
    /\ running' = TRUE
    /\ IF ~background_mode
       THEN StartCalibration
       ELSE /\ calibrated' = TRUE
            /\ UNCHANGED <<calibration_samples, calibration_start_time>>
    /\ calibration_result' = "not called"
    /\ UNCHANGED <<background_mode, calibration_yaw_offset,
                   calibration_pitch_offset, calibration_roll_offset,
                   raw_yaw, raw_pitch, raw_roll, face_detected, in_pose>>

\* FacialMonitoringAgent.run, lines 1345-1358: the 'c' key of the
\* interactive loop restarts the calibration.  The loop reads the key after
\* every frame, skipped frames (lines 986-1012) included, and a skipped frame
\* touches nothing of the calibration, so two restarts can follow each other
KeyCalibrate ==
    /\ running
    /\ ~background_mode
    /\ now' = now + FramePeriod
    /\ op' = "start_calibration"
    /\ steps' = steps + 1
    /\ StartCalibration
    /\ calibration_result' = "not called"
    /\ UNCHANGED <<background_mode, running, calibration_yaw_offset,
                   calibration_pitch_offset, calibration_roll_offset,
                   raw_yaw, raw_pitch, raw_roll, face_detected, in_pose>>

\* FacialMonitoringAgent.process_frame, lines 1021-1031, on a frame with a
\* face: process_calibration (lines 653-687) if a calibration is running,
\* then detect_head_pose again for the raw pose of the frame
ProcessFramePose(dt, geom) ==
    LET t == now + dt
        collecting == ~calibrated /\ calibration_start_time > 0
        first == DetectHeadPose(geom, calibrated, calibration_yaw_offset,
                                calibration_pitch_offset, calibration_roll_offset)
        elapsed == t - calibration_start_time
        appends == collecting /\ InCountdown(elapsed)
        completes == collecting /\ ~InCountdown(elapsed) /\ Len(calibration_samples) > 0
        yaw_offset == IF completes THEN CalibrationMean(calibration_samples, 1)
                      ELSE calibration_yaw_offset
        pitch_offset == IF completes THEN CalibrationMean(calibration_samples, 2)
                        ELSE calibration_pitch_offset
        roll_offset == IF completes THEN CalibrationMean(calibration_samples, 3)
                       ELSE calibration_roll_offset
        is_calibrated == calibrated \/ completes
        second == DetectHeadPose(geom, is_calibrated, yaw_offset, pitch_offset, roll_offset)
    IN  /\ running
        /\ now' = t
        /\ op' = "process_frame"
        /\ steps' = steps + 1
        /\ calibration_samples' = IF appends THEN Append(calibration_samples, first)
                                  ELSE calibration_samples
        /\ calibration_yaw_offset' = yaw_offset
        /\ calibration_pitch_offset' = pitch_offset
        /\ calibration_roll_offset' = roll_offset
        /\ calibrated' = is_calibrated
        /\ calibration_result' = IF ~collecting THEN "not called"
                                 ELSE IF completes THEN "true" ELSE "false"
        /\ raw_yaw' = second[1]
        /\ raw_pitch' = second[2]
        /\ raw_roll' = second[3]
        /\ face_detected' = TRUE
        /\ in_pose' = geom
        /\ UNCHANGED <<background_mode, running, calibration_start_time>>

\* FacialMonitoringAgent.process_frame, lines 1120-1121: no face in the frame
ProcessFrameNoFaceMutant ==
    /\ running
    /\ now' = now + FramePeriod
    /\ op' = "process_frame"
    /\ steps' = steps + 1
    /\ face_detected' = FALSE
    /\ calibration_result' = "not called"
    /\ raw_yaw' = Zero
    /\ raw_pitch' = Zero
    /\ raw_roll' = Zero
    /\ UNCHANGED <<background_mode, running, calibrated, calibration_samples,
                   calibration_yaw_offset, calibration_pitch_offset,
                   calibration_roll_offset, calibration_start_time, in_pose>>

ProcessFrameNoFace ==
    /\ running
    /\ now' = now + FramePeriod
    /\ op' = "process_frame"
    /\ steps' = steps + 1
    /\ face_detected' = FALSE
    /\ calibration_result' = "not called"
    /\ UNCHANGED <<background_mode, running, calibrated, calibration_samples,
                   calibration_yaw_offset, calibration_pitch_offset,
                   calibration_roll_offset, calibration_start_time,
                   raw_yaw, raw_pitch, raw_roll, in_pose>>

(***************************************************************************)
(* Head direction and screen attention                                     *)
(***************************************************************************)
YawThreshold == 10                  \* yaw_threshold = 10.0 degrees
PitchThreshold == 10                \* pitch_threshold = 10.0 degrees
AttentionWindow == 30               \* deque(maxlen=30)
AttentionThreshold == Frac(7, 10)   \* attention_threshold = 0.7
MicroMovementFloor == 1             \* "1.0 < yaw_diff"

\* filtered (yaw, pitch) values fed as periodic streams
DirPoses == {<<0, 0>>, <<2, 0>>, <<12, 0>>, <<-12, 12>>, <<0, -12>>}
\* filtered (yaw, pitch) values fed as constant streams
GridAngles == (-YawThreshold - 3)..(YawThreshold + 3)

Patterns ==
    (UNION {[1..n -> DirPoses] : n \in 1..MaxPeriod})
    \cup {<<<<y, p>>>> : y \in GridAngles, p \in GridAngles}

\* lines 918-931: pitch is looked at first, yaw overwrites it
ClassifyDirectionMutant(yaw, pitch) ==
    IF pitch < -PitchThreshold THEN "UP"
    ELSE IF pitch > PitchThreshold THEN "DOWN"
    ELSE IF yaw < -YawThreshold THEN "LEFT"
    ELSE IF yaw > YawThreshold THEN "RIGHT"
    ELSE "CENTER"

ClassifyDirection(yaw, pitch) ==
    LET by_pitch == IF pitch < -PitchThreshold THEN "UP"
                    ELSE IF pitch > PitchThreshold THEN "DOWN"
                    ELSE "CENTER"
    IN  IF yaw < -YawThreshold THEN "LEFT"
        ELSE IF yaw > YawThreshold THEN "RIGHT"
        ELSE by_pitch

\* lines 947-950
RawLooking(yaw, pitch) ==
    Abs(yaw) <= YawThreshold /\ Abs(pitch) <= PitchThreshold

\* line 957: append to the deque, which drops its oldest entry beyond maxlen
PushAttention(history, flag) == LastN(Append(history, flag), AttentionWindow)

\* lines 960-962: sum / len >= attention_threshold
AttentionMetMutant(history) ==
    CountTrue(history) * 10 >= 2 * Len(history)

AttentionMet(history) ==
    FracLess(AttentionThreshold, Frac(CountTrue(history), Len(history)))
    \/ FracEq(AttentionThreshold, Frac(CountTrue(history), Len(history)))

\* lines 938-940
MicroMovement(yaw, pitch, prev_yaw, prev_pitch) ==
    \/ (MicroMovementFloor < Abs(yaw - prev_yaw) /\ Abs(yaw - prev_yaw) < YawThreshold)
    \/ (MicroMovementFloor < Abs(pitch - prev_pitch) /\ Abs(pitch - prev_pitch) < PitchThreshold)

InitDirection ==
    /\ head_yaw = 0
    /\ head_pitch = 0
    /\ current_direction = "CENTER"
    /\ looking_at_monitor = TRUE
    /\ screen_attention_history = <<>>
    /\ head_movement_count = 0
    /\ micro_movement_count = 0
    /\ gaze_shift_count = 0
    /\ prev_head_yaw = 0
    /\ prev_head_pitch = 0
    /\ prev_head_direction = "CENTER"
    /\ prev_looking_at_monitor = TRUE
    /\ raw_flag = TRUE
    /\ flips = 0

\* FacialMonitoringAgent.process_frame, lines 1033-1037 and 1082-1083: the
\* filtered pose of the frame is stored and update_head_direction
\* (lines 916-968) runs on it
DirectionUpdate(yaw, pitch) ==
    LET new_direction == ClassifyDirection(yaw, pitch)
        raw == RawLooking(yaw, pitch)
        history == PushAttention(screen_attention_history, raw)
        looking == IF Len(history) > 0 THEN AttentionMet(history)
                   ELSE looking_at_monitor
    IN  /\ head_yaw' = yaw
        /\ head_pitch' = pitch
        /\ head_movement_count' = IF new_direction # current_direction
                                  THEN head_movement_count + 1
                                  ELSE head_movement_count
        /\ micro_movement_count' = IF MicroMovement(yaw, pitch, prev_head_yaw, prev_head_pitch)
                                   THEN micro_movement_count + 1
                                   ELSE micro_movement_count
        /\ current_direction' = new_direction
        /\ gaze_shift_count' = IF raw # looking_at_monitor
                               THEN gaze_shift_count + 1
                               ELSE gaze_shift_count
        /\ screen_attention_history' = history
        /\ looking_at_monitor' = looking
        /\ prev_head_yaw' = yaw
        /\ prev_head_pitch' = pitch
        /\ prev_head_direction' = new_direction
        /\ prev_looking_at_monitor' = looking
        /\ raw_flag' = raw
        /\ flips' = IF looking # looking_at_monitor THEN flips + 1 ELSE flips
        /\ UNCHANGED pattern

\* one frame of the direction classifier, a frame period after the last
UpdateHeadDirection(yaw, pitch) ==
    /\ now' = now + FramePeriod
    /\ op' = "update_head_direction"
    /\ steps' = steps + 1
    /\ DirectionUpdate(yaw, pitch)

\* the frame the stream delivers next
NextPose == pattern[(steps % Len(pattern)) + 1]

(***************************************************************************)
(* Gaze tracking: fixations, saccades and the screen attention ratio       *)
(***************************************************************************)
\* gaze coordinates are kept in hundredths of the normalised unit
FixationThreshold == 5              \* fixation_threshold = 0.05
SaccadeThreshold == 10              \* saccade_threshold = 0.1
ScreenBound == 100                  \* "abs(gaze_x) <= 1.0"
CenteredScreenBound == 120          \* "abs(gaze_x) <= 1.2"
AlphaInverse == 20                  \* alpha = 0.05 = 1/20
MinFixation == 100 * TicksPerMs     \* "fixation_duration > 0.1" (s)

\* combined gaze points (lines 797-820) a frame can give
GazePoints == {<<0, 0>>, <<4, 0>>, <<6, 8>>, <<130, 0>>}
GazeGaps == {FramePeriod, 3 * FramePeriod}
\* (height, width) of both eye boxes: open and closed
EyeShapes == {<<3, 10>>, <<1, 10>>}

\* line 834, squared
DistanceSquared(p, q) ==
    (p[1] - q[1]) * (p[1] - q[1]) + (p[2] - q[2]) * (p[2] - q[2])

\* line 841, first disjunct: gaze_distance < fixation_threshold
NearPrevious(p, q) ==
    DistanceSquared(p, q) < FixationThreshold * FixationThreshold

\* line 873: gaze_distance > saccade_threshold
IsSaccade(p, q) ==
    DistanceSquared(p, q) > SaccadeThreshold * SaccadeThreshold

\* line 841: the frame keeps (or may start) a fixation
HoldsFixationMutant(near, is_blinking) == near

HoldsFixation(near, is_blinking) == near \/ is_blinking

\* line 855: the fixation that just ended is recorded
FixationSealsMutant(duration) == duration > 0

FixationSeals(duration) == duration > MinFixation

\* lines 883-896
InScreenBounds(gaze, direction, is_blinking, last_known) ==
    LET inside == Abs(gaze[1]) <= ScreenBound /\ Abs(gaze[2]) <= ScreenBound
        loosened == \/ inside
                    \/ (Abs(gaze[1]) <= CenteredScreenBound
                        /\ Abs(gaze[2]) <= CenteredScreenBound)
        by_gaze == IF direction = "CENTER" THEN loosened ELSE inside
    IN  IF is_blinking /\ last_known THEN TRUE ELSE by_gaze

\* line 904: current_ratio * (1 - alpha) + in_screen_bounds * alpha
ScreenAttentionUpdateMutant(ratio, in_bounds) ==
    <<(AlphaInverse - 1) * ratio[1] + (IF in_bounds THEN AlphaInverse * ratio[2] ELSE 0),
      AlphaInverse * ratio[2]>>

ScreenAttentionUpdate(ratio, in_bounds) ==
    <<(AlphaInverse - 1) * ratio[1] + (IF in_bounds THEN ratio[2] ELSE 0),
      AlphaInverse * ratio[2]>>

\* line 1047: dict.update overwrites the keys the blink result carries
UpdateCurrentBlink(blink, results) ==
    [k \in (DOMAIN blink \cup DOMAIN results) \ {"error"} |->
        IF k \in DOMAIN results THEN results[k] ELSE blink[k]]

\* lines 1049-1064, after the update of line 1047: a blink that has just
\* started stamps blink_last_time and, from the second one on, appends the
\* interval; a blink that has just ended appends its duration.  Both tests
\* compare the result with the agent's copy as it is after the update.
\* Lines 1067-1077 derive variability_score and normal_pattern from the
\* two lists
UpdateBlinkMetrics(metrics, updated_blink, results, t) ==
    LET started == results.blinking /\ ~updated_blink.blinking
        ended == ~results.blinking /\ updated_blink.blinking
    IN  [blink_last_time |-> IF started THEN t ELSE metrics.blink_last_time,
         blink_intervals |->
            IF started /\ metrics.blink_last_time > 0
            THEN Append(metrics.blink_intervals, t - metrics.blink_last_time)
            ELSE metrics.blink_intervals,
         blink_durations |->
            IF ended THEN Append(metrics.blink_durations, results.last_duration)
            ELSE metrics.blink_durations]

\* lines 323-333, 336-352 and 373-379
InitGaze ==
    /\ blink_metrics = [blink_last_time |-> 0, blink_intervals |-> <<>>,
                        blink_durations |-> <<>>]
    /\ current_blink = [blinking |-> FALSE, left_closed |-> FALSE,
                        right_closed |-> FALSE, count |-> 0,
                        rate_per_minute |-> Zero, avg_duration |-> Zero,
                        last_duration |-> 0]
    /\ current_gaze = <<0, 0>>
    /\ prev_gaze = <<>>
    /\ fixation_point = <<>>
    /\ fixation_start_time = 0
    /\ fixation_duration = 0
    /\ fixation_count = 0
    /\ total_fixation_time = 0
    /\ avg_fixation_time = Zero
    /\ saccade_count = 0
    /\ saccade_times = <<>>
    /\ fixation_history = <<>>
    /\ screen_attention_ratio = Zero
    /\ last_known_in_bounds = TRUE
    /\ gaze_kind = "none"
    /\ gaze_far = FALSE
    /\ hold_start = 0
    /\ held_for = 0

\* lines 866-869: the average over the fixations recorded so far
AverageFixationTimeMutant(total, count) == Frac(total, count + 1)

AverageFixationTime(total, count) == Frac(total, count)

\* FacialMonitoringAgent.process_eye_metrics, lines 822-909, at time t: the
\* combined gaze of the frame is given; direction is current_direction as the
\* last frame left it (update_head_direction runs after, line 1083)
ProcessEyeMetrics(t, gaze, is_blinking, direction) ==
    LET previous == IF prev_gaze = <<>> THEN gaze ELSE prev_gaze
        near == NearPrevious(gaze, previous)
        holds == HoldsFixation(near, is_blinking)
        starts == holds /\ fixation_point = <<>> /\ ~is_blinking
        continues == holds /\ fixation_point # <<>>
        seals == ~holds /\ FixationSeals(fixation_duration)
        count == IF seals THEN fixation_count + 1 ELSE fixation_count
        total == IF seals THEN total_fixation_time + fixation_duration
                 ELSE total_fixation_time
        saccade == ~holds /\ IsSaccade(gaze, previous)
        in_bounds == InScreenBounds(gaze, direction, is_blinking, last_known_in_bounds)
        run_start == IF gaze_kind = "hold" THEN hold_start ELSE t
    IN  /\ current_gaze' = gaze
        /\ fixation_point' = IF starts THEN gaze
                             ELSE IF holds THEN fixation_point ELSE <<>>
        /\ fixation_start_time' = IF starts THEN t ELSE fixation_start_time
        /\ fixation_duration' = IF continues THEN t - fixation_start_time
                                ELSE IF holds THEN fixation_duration ELSE 0
        /\ fixation_count' = count
        /\ total_fixation_time' = total
        /\ fixation_history' =
              IF seals
              THEN Append(fixation_history,
                          [point |-> fixation_point,
                           duration |-> fixation_duration,
                           time |-> fixation_start_time])
              ELSE fixation_history
        /\ avg_fixation_time' = IF seals /\ count > 0 THEN AverageFixationTime(total, count)
                                ELSE avg_fixation_time
        /\ saccade_count' = IF saccade THEN saccade_count + 1 ELSE saccade_count
        /\ saccade_times' = IF saccade THEN Append(saccade_times, t) ELSE saccade_times
        /\ last_known_in_bounds' = in_bounds
        /\ screen_attention_ratio' = ScreenAttentionUpdate(screen_attention_ratio, in_bounds)
        /\ prev_gaze' = gaze
        /\ gaze_kind' = IF holds THEN "hold" ELSE "break"
        /\ gaze_far' = ~near
        /\ hold_start' = IF holds THEN run_start ELSE 0
        /\ held_for' = IF holds THEN t - run_start ELSE 0

(***************************************************************************)
(* Frames, logging and the attention and stress scores                     *)
(***************************************************************************)
LogPeriod == 90                     \* "frame_count % 90 == 0"
LogMicroMovementCeiling == 3        \* "yaw_diff < 3.0"
QuietFrames == LogPeriod - 2        \* a face first shows up at once or this late

\* landmark indices read by detect_head_pose (lines 704-716), by
\* process_eye_metrics and the blink detector (lines 759-772, 48-56), and the
\* iris centres (lines 780-783)
PoseIndices == {33, 133, 362, 263, 4, 61, 291}
EyeIndices == {33, 159, 145, 133, 362, 386, 374, 263}
IrisIndices == {468, 473}

\* line 914, landmarks.landmark[idx]: the list of n landmarks has the indices
Present(n, indices) == \A i \in indices : i < n

\* frames with a face whose landmark list is long enough for the pose and
\* the eyes: frame gap, list length, eye boxes, combined gaze, geometric
\* pose, filtered pose
FrameInputs ==
    { [dt |-> FramePeriod, n |-> 478, eye |-> <<3, 10>>, gaze |-> <<0, 0>>,
       geom |-> <<0, 0, 0>>, pose |-> <<0, 0>>],
      [dt |-> FramePeriod, n |-> 468, eye |-> <<3, 10>>, gaze |-> <<4, 0>>,
       geom |-> <<4, -2, 1>>, pose |-> <<2, 0>>],
      [dt |-> FramePeriod, n |-> 478, eye |-> <<3, 10>>, gaze |-> <<110, 0>>,
       geom |-> <<6, 2, -3>>, pose |-> <<12, 0>>],
      [dt |-> FramePeriod, n |-> 478, eye |-> <<1, 10>>, gaze |-> <<0, 0>>,
       geom |-> <<0, 0, 0>>, pose |-> <<0, 0>>],
      [dt |-> 13 * FramePeriod, n |-> 478, eye |-> <<3, 10>>, gaze |-> <<0, 0>>,
       geom |-> <<0, 0, 0>>, pose |-> <<0, 0>>] }

\* frames whose landmark list is too short for the eyes, or for the pose
ShortFrameInputs ==
    { [dt |-> FramePeriod, n |-> 380, geom |-> <<6, 2, -3>>, pose |-> <<12, 0>>],
      [dt |-> FramePeriod, n |-> 200, geom |-> <<0, 0, 0>>, pose |-> <<0, 0>>] }

Min(a, b) == IF a < b THEN a ELSE b
Max(a, b) == IF a < b THEN b ELSE a
FracMin(a, b) == IF FracLess(b, a) THEN b ELSE a
RateBelow(rate, n) == FracLess(rate, Frac(n, 1))
RateAbove(rate, n) == FracLess(Frac(n, 1), rate)

\* lines 778-791: without the iris landmarks the eye-box centre stands in
\* for the iris, which puts the gaze of both eyes at 0
CombinedGaze(n, gaze) == IF Present(n, IrisIndices) THEN gaze ELSE <<0, 0>>

\* lines 509-515
LogMicroMovement(yaw, pitch, prev_yaw, prev_pitch) ==
    \/ (MicroMovementFloor < Abs(yaw - prev_yaw)
        /\ Abs(yaw - prev_yaw) < LogMicroMovementCeiling)
    \/ (MicroMovementFloor < Abs(pitch - prev_pitch)
        /\ Abs(pitch - prev_pitch) < LogMicroMovementCeiling)

\* lines 532-534
HeadStillness(direction, moving) ==
    LET base == IF direction = "CENTER" THEN 30 ELSE 15
    IN  IF moving THEN Max(0, base - 10) ELSE base

\* lines 537-542 and 1694-1700: an if with an elif
BlinkNormalcy(rate) ==
    IF RateBelow(rate, 10) \/ RateAbove(rate, 30) THEN 10
    ELSE IF RateBelow(rate, 5) \/ RateAbove(rate, 40) THEN 5
    ELSE 20

\* line 529: screen_attention_ratio * 50, with the fraction reduced by 10
GazeAttention(ratio) ==
    IF ratio[2] % 10 = 0 THEN <<5 * ratio[1], ratio[2] \div 10>>
    ELSE <<50 * ratio[1], ratio[2]>>

\* lines 544 and 1702
AttentionScoreMutant(ratio, head_stillness, blink_normalcy) ==
    FracAdd(Frac(100, 1),
            FracAdd(GazeAttention(ratio), Frac(head_stillness + blink_normalcy, 1)))

AttentionScore(ratio, head_stillness, blink_normalcy) ==
    FracMin(Frac(100, 1),
            FracAdd(GazeAttention(ratio), Frac(head_stillness + blink_normalcy, 1)))

\* lines 549-552 and 558, the duration in ticks
MicroSleepStress(last_duration) ==
    IF last_duration > MicroSleepLimit THEN 30 ELSE 0

\* lines 561-565: two ifs, the second overrides the first
BlinkStress(rate) ==
    IF RateBelow(rate, 3) \/ RateAbove(rate, 40) THEN 30
    ELSE IF RateBelow(rate, 5) \/ RateAbove(rate, 30) THEN 15
    ELSE 0

\* lines 568-570
MovementStress(micro_movement, head_movement) ==
    (IF micro_movement THEN 20 ELSE 0) + (IF head_movement THEN 20 ELSE 0)

\* line 573
StressScore(last_duration, rate, micro_movement, head_movement) ==
    Min(100, MicroSleepStress(last_duration) + BlinkStress(rate)
             + MovementStress(micro_movement, head_movement))

\* FacialMonitoringAgent.log_data, lines 504-573: what it computes from the
\* agent's fields as they are when it runs; at_frame notes the frame count
\* at that moment
LogData(count, yaw, pitch, prev_yaw, prev_pitch, direction, prev_direction, looking, prev_looking, ratio, blink) ==
    LET micro_movement == LogMicroMovement(yaw, pitch, prev_yaw, prev_pitch)
        head_movement == direction # prev_direction
        head_stillness == HeadStillness(direction, head_movement \/ micro_movement)
        blink_normalcy == BlinkNormalcy(blink.rate_per_minute)
    IN  [logged |-> TRUE,
         at_frame |-> count,
         micro_movement |-> micro_movement,
         head_movement |-> head_movement,
         gaze_shift |-> (looking # prev_looking),
         direction |-> direction,
         ratio |-> ratio,
         blink_rate |-> blink.rate_per_minute,
         last_duration |-> blink.last_duration,
         head_stillness |-> head_stillness,
         blink_normalcy |-> blink_normalcy,
         attention_score |-> AttentionScore(ratio, head_stillness, blink_normalcy),
         micro_sleep_stress |-> MicroSleepStress(blink.last_duration),
         blink_stress |-> BlinkStress(blink.rate_per_minute),
         movement_stress |-> MovementStress(micro_movement, head_movement),
         stress_score |-> StressScore(blink.last_duration, blink.rate_per_minute,
                                      micro_movement, head_movement)]

\* FacialMonitoringAgent.calculate_attention_score, lines 1686-1702
CalculateAttentionScoreMutant(ratio, direction, rate) ==
    AttentionScore(ratio, HeadStillness(direction, TRUE), BlinkNormalcy(rate))

CalculateAttentionScore(ratio, direction, rate) ==
    AttentionScore(ratio, HeadStillness(direction, FALSE), BlinkNormalcy(rate))

\* FacialMonitoringAgent.calculate_stress_score, lines 1704-1707
CalculateStressScore == 0

\* lines 435-466 and the results of the session, of which there are none yet
InitScores ==
    /\ frame_count = 0
    /\ log_row = [logged |-> FALSE]
    /\ session_scores = [summarised |-> FALSE]
    /\ raised = "none"
    /\ landmark_count = 0
    /\ moved = FALSE
    /\ jittered = FALSE
    /\ quiet_frames = 0

\* line 1204: the frame that has just been counted is a logging frame
LogsOnFrame(count) == count % LogPeriod = 0

(***************************************************************************)
(* Trials: start_trial, update_trial_data and end_trial as the class has   *)
(* them last (lines 1709-1862; the definitions of lines 1559-1652 are      *)
(* replaced by these when the class body is executed)                      *)
(***************************************************************************)
TrialIds == {1, 2}

\* lines 356 and 432-435
InitTrials ==
    /\ current_trial_id = 0
    /\ trial_start_time = 0
    /\ is_trial_active = FALSE
    /\ trial_data = [id \in {} |-> 0]
    /\ trials_data = <<>>
    /\ trial_return = [call |-> "none", id |-> 0, value |-> "none"]

\* lines 1716-1731
NewTrialRecord(id, t) ==
    [trial_id |-> id, start_time |-> t, end_time |-> 0, duration |-> 0,
     blinks |-> 0, blink_start_count |-> current_blink.count,
     gaze_on_screen_samples |-> <<>>, head_direction_samples |-> <<>>,
     head_movements |-> 0, head_movement_start |-> head_movement_count,
     gaze_shifts |-> 0, gaze_shift_start |-> gaze_shift_count,
     emotion_samples |-> <<>>, attention_samples |-> <<>>]

\* collections.Counter(samples).most_common(1)[0][0]: the value seen most
\* often, the one seen first among equals
MostCommon(samples) ==
    LET best == CHOOSE i \in DOMAIN samples :
                    /\ i = FirstIndex(samples, samples[i])
                    /\ \A j \in DOMAIN samples :
                          \/ Occurrences(samples, samples[j]) < Occurrences(samples, samples[i])
                          \/ (Occurrences(samples, samples[j]) = Occurrences(samples, samples[i])
                              /\ FirstIndex(samples, samples[j]) >= i)
    IN  samples[best]

\* lines 1764-1768: int(sum(samples) / len(samples) * 100) of booleans
GazeOnScreenPct(samples) ==
    IF samples # <<>> THEN (CountTrue(samples) * 100) \div Len(samples) ELSE 0

\* lines 1786-1790: int(sum(samples) / len(samples))
MeanAttention(samples) ==
    IF samples # <<>> THEN FracInt(FracDiv(FracSum(samples), Len(samples))) ELSE 0

\* lines 1749-1797: the record of the trial as end_trial leaves it in
\* trial_data, the counters read as they are at time t
SealedTrialRecord(data, t) ==
    [trial_id |-> data.trial_id, start_time |-> data.start_time, end_time |-> t,
     duration |-> t - trial_start_time,
     blinks |-> current_blink.count - data.blink_start_count,
     head_movements |-> head_movement_count - data.head_movement_start,
     gaze_shifts |-> gaze_shift_count - data.gaze_shift_start,
     gaze_on_screen_pct |-> GazeOnScreenPct(data.gaze_on_screen_samples),
     head_direction |-> IF data.head_direction_samples # <<>>
                        THEN MostCommon(data.head_direction_samples) ELSE "UNKNOWN",
     dominant_emotion |-> IF data.emotion_samples # <<>>
                          THEN MostCommon(data.emotion_samples) ELSE "neutral",
     attention_score |-> MeanAttention(data.attention_samples)]

\* lines 1800-1813: the result built from the record, values copied
TrialResult(id, sealed) ==
    [trial_id |-> id, duration |-> sealed.duration, blinks |-> sealed.blinks,
     gaze_on_screen_pct |-> sealed.gaze_on_screen_pct,
     head_direction |-> sealed.head_direction,
     head_movements |-> sealed.head_movements,
     dominant_emotion |-> sealed.dominant_emotion,
     attention_score |-> sealed.attention_score]

\* line 1824
RecordTrialMutant(trials, result) == <<result>>

RecordTrial(trials, result) == Append(trials, result)

\* FacialMonitoringAgent.start_trial, lines 1709-1735, at time t
StartTrial(t, id) ==
    /\ current_trial_id' = id
    /\ trial_start_time' = t
    /\ is_trial_active' = TRUE
    /\ trial_data' = [k \in DOMAIN trial_data \cup {id} |->
                        IF k = id THEN NewTrialRecord(id, t) ELSE trial_data[k]]
    /\ trial_return' = [call |-> "start_trial", id |-> id, value |-> "true"]
    /\ UNCHANGED trials_data

\* line 1739: the call is refused unless it names the active trial
EndTrialRefusedMutant(active, current, id) == ~active

EndTrialRefused(active, current, id) == ~active \/ current # id

\* FacialMonitoringAgent.end_trial, lines 1737-1830, at time t, with no
\* game results given.  A record is in trial_data for every id start_trial
\* was called with, so line 1747 finds it whenever line 1739 lets the call by
EndTrial(t, id) ==
    IF EndTrialRefused(is_trial_active, current_trial_id, id)
    THEN /\ trial_return' = [call |-> "end_trial", id |-> id, value |-> "false"]
         /\ UNCHANGED <<current_trial_id, trial_start_time, is_trial_active,
                        trial_data, trials_data>>
    ELSE LET sealed == SealedTrialRecord(trial_data[id], t)
         IN  /\ id \in DOMAIN trial_data
             /\ trial_data' = [trial_data EXCEPT ![id] = sealed]
             /\ trials_data' = RecordTrial(trials_data, TrialResult(id, sealed))
             /\ is_trial_active' = FALSE
             /\ trial_return' = [call |-> "end_trial", id |-> id, value |-> "trial_result"]
             /\ UNCHANGED <<current_trial_id, trial_start_time>>

\* FacialMonitoringAgent.update_trial_data, lines 1847-1862, called by
\* process_frame (lines 1086-1087) after update_head_direction: one sample
\* of each kind is appended to the record of the current trial
UpdateTrialData(looking, direction, attention) ==
    /\ trial_data' =
          IF is_trial_active /\ current_trial_id \in DOMAIN trial_data
          THEN [trial_data EXCEPT ![current_trial_id] =
                   [@ EXCEPT !.gaze_on_screen_samples = Append(@, looking),
                             !.head_direction_samples = Append(@, direction),
                             !.emotion_samples = Append(@, "neutral"),
                             !.attention_samples = Append(@, attention)]]
          ELSE trial_data
    /\ UNCHANGED <<current_trial_id, trial_start_time, is_trial_active,
                   trials_data, trial_return>>

\* FacialMonitoringAgent.process_frame, lines 970-1205, on a frame with a
\* face and all the landmarks the pose and the eyes need: calibration and
\* raw pose, filter, blink detection, gaze tracking, head direction, and
\* log_data on every LogPeriod-th frame.  The filtered pose is given.
ProcessFrame(dt, n, eye, gaze, geom, pose) ==
    /\ raised = "none"
    /\ Present(n, PoseIndices)
    /\ Present(n, EyeIndices)
    /\ ProcessFramePose(dt, geom)
    /\ BlinkUpdate(now + dt, dt, eye[1], eye[2], eye[1], eye[2])
    /\ current_blink' = UpdateCurrentBlink(current_blink, blink_results')
    /\ blink_metrics' = UpdateBlinkMetrics(blink_metrics, current_blink',
                                           blink_results', now')
    /\ ProcessEyeMetrics(now + dt, CombinedGaze(n, gaze), current_blink'.blinking,
                         current_direction)
    /\ DirectionUpdate(pose[1], pose[2])
    /\ UpdateTrialData(looking_at_monitor', current_direction',
                       CalculateAttentionScore(screen_attention_ratio', current_direction',
                                               current_blink'.rate_per_minute))
    /\ frame_count' = frame_count + 1
    /\ moved' = (ClassifyDirection(pose[1], pose[2]) # current_direction)
    /\ jittered' = LogMicroMovement(pose[1], pose[2], prev_head_yaw, prev_head_pitch)
    /\ landmark_count' = n
    /\ log_row' = IF LogsOnFrame(frame_count + 1)
                  THEN LogData(frame_count + 1, head_yaw', head_pitch', prev_head_yaw', prev_head_pitch',
                               current_direction', prev_head_direction',
                               looking_at_monitor', prev_looking_at_monitor',
                               screen_attention_ratio', current_blink')
                  ELSE log_row
    /\ UNCHANGED <<session_scores, raised>>

\* FacialMonitoringAgent.process_frame, lines 970-1022, 1120-1121 and
\* 1203-1205, on a frame without a face; log_data ends by storing the
\* current pose, direction and flag as the previous ones (lines 619-623)
ProcessFrameWithoutFace ==
    LET logs == LogsOnFrame(frame_count + 1)
    IN  /\ raised = "none"
        /\ ProcessFrameNoFace
        /\ frame_count' = frame_count + 1
        /\ moved' = FALSE
        /\ jittered' = FALSE
        /\ landmark_count' = 0
        /\ log_row' = IF logs
                      THEN LogData(frame_count + 1, head_yaw, head_pitch,
                                   prev_head_yaw, prev_head_pitch,
                                   current_direction, prev_head_direction,
                                   looking_at_monitor, prev_looking_at_monitor,
                                   screen_attention_ratio, current_blink)
                      ELSE log_row
        /\ prev_head_yaw' = IF logs THEN head_yaw ELSE prev_head_yaw
        /\ prev_head_pitch' = IF logs THEN head_pitch ELSE prev_head_pitch
        /\ prev_head_direction' = IF logs THEN current_direction ELSE prev_head_direction
        /\ prev_looking_at_monitor' = IF logs THEN looking_at_monitor
                                      ELSE prev_looking_at_monitor
        /\ UNCHANGED <<head_yaw, head_pitch, current_direction, looking_at_monitor,
                       screen_attention_history, head_movement_count,
                       micro_movement_count, gaze_shift_count, pattern, raw_flag,
                       flips>>
        /\ UNCHANGED <<blinkVars, gazeVars, session_scores, raised, trialVars>>

\* FacialMonitoringAgent.process_frame, lines 970-1031, with
\* detect_head_pose (lines 689-716) and get_landmark_position (lines
\* 911-914): the list lacks an index the pose needs; face_detected is set
\* (line 698), then landmarks.landmark[idx] raises IndexError, which nothing
\* catches before main (lines 1886-1911)
ProcessFramePoseRaises(dt, n) ==
    /\ raised = "none"
    /\ running
    /\ n > 0
    /\ ~Present(n, PoseIndices)
    /\ now' = now + dt
    /\ op' = "process_frame"
    /\ steps' = steps + 1
    /\ frame_count' = frame_count + 1
    /\ face_detected' = TRUE
    /\ calibration_result' = "not called"
    /\ raised' = "detect_head_pose"
    /\ landmark_count' = n
    /\ moved' = FALSE
    /\ jittered' = FALSE
    /\ UNCHANGED <<background_mode, running, calibrated, calibration_samples,
                   calibration_yaw_offset, calibration_pitch_offset,
                   calibration_roll_offset, calibration_start_time,
                   raw_yaw, raw_pitch, raw_roll, in_pose>>
    /\ UNCHANGED <<blinkVars, dirVars, gazeVars, log_row, session_scores, trialVars>>

\* FacialMonitoringAgent.process_frame, lines 970-1080, with
\* process_eye_metrics (lines 748-772): the list has the indices of the pose
\* but lacks one of the eyes.  The pose is taken and filtered, the blink
\* detector returns its error dictionary, then landmarks.landmark[idx]
\* raises IndexError in process_eye_metrics, outside its try (line 778);
\* update_head_direction and log_data are not reached
ProcessFrameGazeRaises(dt, n, geom, pose) ==
    /\ raised = "none"
    /\ Present(n, PoseIndices)
    /\ ~Present(n, EyeIndices)
    /\ ProcessFramePose(dt, geom)
    /\ BlinkFailure
    /\ current_blink' = UpdateCurrentBlink(current_blink, blink_results')
    /\ blink_metrics' = UpdateBlinkMetrics(blink_metrics, current_blink',
                                           blink_results', now')
    /\ head_yaw' = pose[1]
    /\ head_pitch' = pose[2]
    /\ frame_count' = frame_count + 1
    /\ raised' = "process_eye_metrics"
    /\ landmark_count' = n
    /\ moved' = FALSE
    /\ jittered' = FALSE
    /\ UNCHANGED <<current_direction, looking_at_monitor,
                   screen_attention_history, head_movement_count,
                   micro_movement_count, gaze_shift_count, prev_head_yaw,
                   prev_head_pitch, prev_head_direction, prev_looking_at_monitor,
                   pattern, raw_flag, flips>>
    /\ UNCHANGED <<gazeState, log_row, session_scores, trialVars>>

\* line 357; the only other assignment of the field is in the start_trial
\* of lines 1559-1571, which the definition of line 1709 replaces
current_trial_start_time == 0

\* line 1420, the test of "End any ongoing trial"
EndsOngoingTrial == current_trial_id > 0 /\ current_trial_start_time > 0

\* FacialMonitoringAgent.run, lines 1413-1435 and 1550, with
\* generate_session_summary (lines 1660-1684): the loop has ended, the last
\* row is logged and the summary takes its two scores (the report of lines
\* 1489-1500 prints the same two).  Line 1421 would call
\* end_trial(success=True), which the end_trial of line 1737 does not accept
StopSession ==
    /\ raised = "none"
    /\ running
    /\ now' = now + FramePeriod
    /\ op' = "stop"
    /\ steps' = steps + 1
    /\ running' = FALSE
    /\ log_row' = LogData(frame_count, head_yaw, head_pitch,
                          prev_head_yaw, prev_head_pitch,
                          current_direction, prev_head_direction,
                          looking_at_monitor, prev_looking_at_monitor,
                          screen_attention_ratio, current_blink)
    /\ prev_head_yaw' = head_yaw
    /\ prev_head_pitch' = head_pitch
    /\ prev_head_direction' = current_direction
    /\ prev_looking_at_monitor' = looking_at_monitor
    /\ session_scores' =
          [summarised |-> TRUE,
           attention_score |-> CalculateAttentionScore(screen_attention_ratio,
                                   current_direction, current_blink.rate_per_minute),
           stress_score |-> CalculateStressScore]
    /\ UNCHANGED <<background_mode, calibrated, calibration_samples,
                   calibration_yaw_offset, calibration_pitch_offset,
                   calibration_roll_offset, calibration_start_time,
                   raw_yaw, raw_pitch, raw_roll, face_detected, in_pose,
                   calibration_result>>
    /\ UNCHANGED <<head_yaw, head_pitch, current_direction, looking_at_monitor,
                   screen_attention_history, head_movement_count,
                   micro_movement_count, gaze_shift_count, pattern, raw_flag,
                   flips>>
    /\ raised' = IF EndsOngoingTrial THEN "end_trial" ELSE raised
    /\ UNCHANGED <<blinkVars, gazeVars, frame_count, landmark_count,
                   moved, jittered, trialVars>>

(***************************************************************************)
(* The bridge: FaceMonitorAPI of src/face/face_monitor_api.py.  Each       *)
(* request handler runs in a thread of its own (threaded=True, line 504)   *)
(* and is taken as one step; a background monitoring thread takes one step *)
(* per access to the fields it shares with the handlers.  A dictionary of  *)
(* metrics is an entry of metrics_objects, so that two references to the   *)
(* same dictionary see each other's writes; its random readings are left   *)
(* out, what is kept is who filled it and who put the timestamp in.        *)
(***************************************************************************)
EmptyMetrics == [filled |-> FALSE, by |-> 0, stamped |-> FALSE, stamped_by |-> 0]

NothingRead == [handler |-> "none", has |-> FALSE, metrics |-> EmptyMetrics]

\* session_data = {} (lines 30-49 and 484)
EmptySession == [session_id |-> 0, ended |-> FALSE]

\* lines 30-49.  In api_current_trial_id and in the trial records 0 stands
\* for the values Python takes as false: None (also a request without
\* trial_id), 0 and ''
InitBridge ==
    /\ is_monitoring = FALSE
    /\ current_session_id = 0
    /\ api_current_trial_id = 0
    /\ api_trial_data = <<>>
    /\ metrics_objects = <<EmptyMetrics>>
    /\ current_metrics = 1
    /\ threads = <<>>
    /\ last_read = NothingRead
    /\ session_ended = FALSE
    /\ session_data = EmptySession
    /\ response = "none"
    /\ awaiting_end = 0

\* the value a handler gets when it serialises or copies self.current_metrics
MetricsNow == metrics_objects[current_metrics]

Reads(handler) == [handler |-> handler, has |-> TRUE, metrics |-> MetricsNow]

ReadsNothing(handler) == [handler |-> handler, has |-> FALSE, metrics |-> EmptyMetrics]

\* the first trial of the list with the given id (the for loops of lines
\* 169-180, 371-374 and 451-454), 0 if there is none
FirstTrialWith(id) ==
    IF \E k \in DOMAIN api_trial_data : api_trial_data[k].trial_id = id
    THEN CHOOSE k \in DOMAIN api_trial_data :
            /\ api_trial_data[k].trial_id = id
            /\ \A j \in 1..(k - 1) : api_trial_data[j].trial_id # id
    ELSE 0

BridgeStep(name) ==
    /\ op' = name
    /\ steps' = steps + 1
    /\ UNCHANGED now

\* start_session, lines 61-107
StartSession ==
    /\ BridgeStep("start_session")
    /\ last_read' = ReadsNothing("start_session")
    /\ IF is_monitoring
       THEN /\ response' = "error"
            /\ UNCHANGED <<is_monitoring, current_session_id, threads,
                           session_ended, session_data>>
       ELSE /\ current_session_id' = Len(threads) + 1
            /\ session_data' = [session_id |-> Len(threads) + 1, ended |-> FALSE]
            /\ is_monitoring' = TRUE
            /\ threads' = Append(threads, [pc |-> "start", camera |-> FALSE,
                                           session |-> Len(threads) + 1,
                                           found |-> 0, found_session |-> 0])
            /\ session_ended' = FALSE
            /\ response' = "success"
    /\ UNCHANGED <<api_current_trial_id, api_trial_data, metrics_objects,
                   current_metrics, awaiting_end>>

\* start_trial, lines 109-153
StartTrialRequest(id) ==
    /\ BridgeStep("start_trial")
    /\ IF ~is_monitoring
       THEN /\ last_read' = ReadsNothing("start_trial")
            /\ response' = "error"
            /\ UNCHANGED <<api_current_trial_id, api_trial_data, awaiting_end>>
       ELSE /\ api_current_trial_id' = id
            /\ api_trial_data' = Append(api_trial_data,
                                        [trial_id |-> id, session |-> current_session_id,
                                         start_metrics |-> MetricsNow,
                                         during_trial |-> <<>>, ended |-> FALSE])
            /\ last_read' = Reads("start_trial")
            /\ response' = "success"
            /\ awaiting_end' = Len(api_trial_data) + 1
    /\ UNCHANGED <<is_monitoring, current_session_id, metrics_objects,
                   current_metrics, threads, session_ended, session_data>>

\* line 162, "if not self.current_trial_id"
NoActiveTrialMutant(id) == FALSE

NoActiveTrial(id) == id = 0

\* end_trial, lines 155-206
EndTrialRequest ==
    /\ BridgeStep("end_trial")
    /\ IF NoActiveTrial(api_current_trial_id)
       THEN /\ last_read' = ReadsNothing("end_trial")
            /\ response' = "error"
            /\ UNCHANGED <<api_current_trial_id, api_trial_data>>
       ELSE LET k == FirstTrialWith(api_current_trial_id)
            IN  /\ api_trial_data' =
                      IF k = 0 THEN api_trial_data
                      ELSE [api_trial_data EXCEPT ![k].ended = TRUE]
                /\ api_current_trial_id' = 0
                /\ last_read' = Reads("end_trial")
                /\ response' = "success"
    /\ awaiting_end' = 0
    /\ UNCHANGED <<is_monitoring, current_session_id, metrics_objects,
                   current_metrics, threads, session_ended, session_data>>

\* end_session, lines 208-250, with _reset_state, lines 481-487
EndSession ==
    /\ BridgeStep("end_session")
    /\ IF ~is_monitoring
       THEN /\ last_read' = ReadsNothing("end_session")
            /\ response' = "error"
            /\ UNCHANGED <<is_monitoring, current_session_id, api_current_trial_id,
                           api_trial_data, metrics_objects, current_metrics,
                           session_ended, session_data, awaiting_end>>
       ELSE /\ is_monitoring' = FALSE
            /\ last_read' = Reads("end_session")
            /\ response' = "success"
            /\ current_session_id' = 0
            /\ api_current_trial_id' = 0
            /\ session_data' = EmptySession
            /\ api_trial_data' = <<>>
            /\ metrics_objects' = Append(metrics_objects, EmptyMetrics)
            /\ current_metrics' = Len(metrics_objects) + 1
            /\ session_ended' = TRUE
            /\ awaiting_end' = 0
    /\ UNCHANGED threads

\* get_current_metrics, lines 252-266
GetCurrentMetrics ==
    /\ BridgeStep("current_metrics")
    /\ last_read' = IF is_monitoring THEN Reads("current_metrics")
                    ELSE ReadsNothing("current_metrics")
    /\ response' = IF is_monitoring THEN "success" ELSE "error"
    /\ UNCHANGED <<is_monitoring, current_session_id, api_current_trial_id,
                   api_trial_data, metrics_objects, current_metrics, threads,
                   session_ended, session_data, awaiting_end>>

\* get_status, lines 268-276
GetStatus ==
    /\ BridgeStep("status")
    /\ last_read' = IF is_monitoring THEN Reads("status") ELSE ReadsNothing("status")
    /\ response' = "success"
    /\ UNCHANGED <<is_monitoring, current_session_id, api_current_trial_id,
                   api_trial_data, metrics_objects, current_metrics, threads,
                   session_ended, session_data, awaiting_end>>

\* the pcs at which a thread is inside the body of its while loop
BodyPcs == {"analyse", "stamp", "append", "write"}

\* what a step of a background thread leaves alone
HandlerState == <<is_monitoring, current_session_id, api_current_trial_id, last_read,
                  session_ended, session_data, response, awaiting_end>>

\* _run_monitoring_background, lines 324-332, and _initialize_camera, lines
\* 278-322: with a camera the thread goes on to the loop of lines 340-376,
\* without one to the loop of _run_simulated_monitoring
InitializeCamera(i, ok) ==
    /\ threads[i].pc = "start"
    /\ BridgeStep("thread")
    /\ threads' = [threads EXCEPT ![i].pc = "loop", ![i].camera = ok]
    /\ UNCHANGED <<HandlerState, api_trial_data, metrics_objects, current_metrics>>

\* "while self.is_monitoring", lines 340 and 426, reached at the start of
\* the thread and after every sleep; with a camera also the read of the
\* frame (lines 341-344), which ends the loop if it fails
TestMonitoring(i, ret) ==
    /\ threads[i].pc = "loop"
    /\ BridgeStep("thread")
    /\ threads' = [threads EXCEPT ![i].pc =
                      IF is_monitoring /\ (threads[i].camera => ret)
                      THEN "analyse" ELSE "done"]
    /\ UNCHANGED <<HandlerState, api_trial_data, metrics_objects, current_metrics>>

\* lines 349-364 and 436-447: a new dictionary is made and assigned to
\* self.current_metrics.  head_monitor is None (the import of line 23 fails,
\* enhanced_head_monitor has no HeadMonitor), so with a camera the
\* dictionary is that of _basic_face_analysis, lines 409-419, which has no
\* timestamp; the simulated one is made with its timestamp
MakesStamped(camera) == ~camera

PublishMetrics(i) ==
    /\ threads[i].pc = "analyse"
    /\ BridgeStep("thread")
    /\ metrics_objects' = Append(metrics_objects,
                                 [filled |-> TRUE, by |-> i,
                                  stamped |-> MakesStamped(threads[i].camera),
                                  stamped_by |-> IF MakesStamped(threads[i].camera)
                                                 THEN i ELSE 0])
    /\ current_metrics' = Len(metrics_objects) + 1
    /\ threads' = [threads EXCEPT ![i].pc =
                      IF threads[i].camera THEN "stamp" ELSE "append"]
    /\ UNCHANGED <<HandlerState, api_trial_data>>

\* line 367: self.current_metrics['timestamp'] = ..., on the dictionary the
\* field refers to when the line runs
StampMetrics(i) ==
    /\ threads[i].pc = "stamp"
    /\ BridgeStep("thread")
    /\ metrics_objects' = [metrics_objects EXCEPT ![current_metrics].stamped = TRUE,
                                                  ![current_metrics].stamped_by = i]
    /\ threads' = [threads EXCEPT ![i].pc = "append"]
    /\ UNCHANGED <<HandlerState, api_trial_data, current_metrics>>

\* lines 370-373 and 450-453: the test of current_trial_id and trial_data
\* and the loop that looks for the trial with the current id; the thread
\* keeps a reference to the trial dictionary it found, here its index and
\* the session that made it.  With no trial to write to the thread sleeps
\* (lines 376, 456)
FindTrial(i) ==
    /\ threads[i].pc = "append"
    /\ BridgeStep("thread")
    /\ LET k == FirstTrialWith(api_current_trial_id)
       IN  threads' =
              IF api_current_trial_id # 0 /\ k # 0
              THEN [threads EXCEPT ![i].pc = "write", ![i].found = k,
                                   ![i].found_session = api_trial_data[k].session]
              ELSE [threads EXCEPT ![i].pc = "loop"]
    /\ UNCHANGED <<HandlerState, api_trial_data, metrics_objects, current_metrics>>

\* the trial dictionary the thread found is still in self.trial_data
\* (_reset_state replaces the list, line 486)
StillListed(k, session) ==
    k \in DOMAIN api_trial_data /\ api_trial_data[k].session = session

\* lines 374-376 and 454-456: a copy of the metrics is appended to the trial
\* found, then the thread sleeps
AppendToTrial(i) ==
    /\ threads[i].pc = "write"
    /\ BridgeStep("thread")
    /\ api_trial_data' =
          IF StillListed(threads[i].found, threads[i].found_session)
          THEN [api_trial_data EXCEPT ![threads[i].found].during_trial =
                                          Append(@, MetricsNow)]
          ELSE api_trial_data
    /\ threads' = [threads EXCEPT ![i].pc = "loop", ![i].found = 0,
                                  ![i].found_session = 0]
    /\ UNCHANGED <<HandlerState, metrics_objects, current_metrics>>

(***************************************************************************)
(* HeadPoseKalmanFilter: cv2.KalmanFilter(6, 3) as __init__ sets it up.    *)
(* The matrices are block diagonal, so the three axes never mix and share  *)
(* one 2 x 2 covariance block (angle, angular velocity).  The float32      *)
(* values are kept in fixed point, AngleScale units to 1.0, every product  *)
(* and quotient rounded to the nearest unit.                               *)
(***************************************************************************)
AngleScale == 10000
FramesPerSecond == 30               \* self.dt = 1.0/30.0
ProcessNoise == AngleScale \div 1000        \* process_noise_scale = 1e-3
MeasurementNoise == AngleScale \div 10      \* measurement_noise_scale = 0.1

RoundDiv(n, d) == (2 * n + d) \div (2 * d)
FixMul(a, b) == RoundDiv(a * b, AngleScale)
FixDiv(a, b) == RoundDiv(a * AngleScale, b)
TimesDt(a) == RoundDiv(a, FramesPerSecond)

\* lines 250-253: errorCovPost = I, statePost = 0
InitKalman ==
    /\ state_post = [pos |-> <<0, 0, 0>>, vel |-> <<0, 0, 0>>]
    /\ error_cov_post = <<AngleScale, 0, 0, AngleScale>>
    /\ kalman_fed = <<>>
    /\ kalman_correction = <<0, 0, 0>>

\* kalman.predict(), line 261: statePre = A statePost
StatePre(state) ==
    [pos |-> [i \in 1..3 |-> state.pos[i] + TimesDt(state.vel[i])],
     vel |-> state.vel]

\* kalman.predict(): errorCovPre = A errorCovPost A^T + Q
ErrorCovPre(cov) ==
    LET a == cov[1] + TimesDt(cov[3])
        b == cov[2] + TimesDt(cov[4])
    IN  <<a + TimesDt(b) + ProcessNoise, b,
          cov[3] + TimesDt(cov[4]), cov[4] + ProcessNoise>>

\* kalman.correct(): gain = errorCovPre H^T (H errorCovPre H^T + R)^-1
Gain(covPre) ==
    <<FixDiv(covPre[1], covPre[1] + MeasurementNoise),
      FixDiv(covPre[3], covPre[1] + MeasurementNoise)>>

\* kalman.correct(), lines 264-265: statePost = statePre + gain (z - H statePre)
StateCorrected(pre, gain, z) ==
    [pos |-> [i \in 1..3 |-> pre.pos[i] + FixMul(gain[1], z[i] - pre.pos[i])],
     vel |-> [i \in 1..3 |-> pre.vel[i] + FixMul(gain[2], z[i] - pre.pos[i])]]

\* kalman.correct(): errorCovPost = errorCovPre - gain H errorCovPre
ErrorCovCorrected(covPre, gain) ==
    <<covPre[1] - FixMul(gain[1], covPre[1]), covPre[2] - FixMul(gain[1], covPre[2]),
      covPre[3] - FixMul(gain[2], covPre[1]), covPre[4] - FixMul(gain[2], covPre[2])>>

\* HeadPoseKalmanFilter.update, lines 255-268; the angles are in AngleScale
\* units
KalmanUpdate(yaw, pitch, roll) ==
    LET z == <<yaw, pitch, roll>>
        pre == StatePre(state_post)
        covPre == ErrorCovPre(error_cov_post)
        gain == Gain(covPre)
        corrected == StateCorrected(pre, gain, z)
    IN  /\ state_post' = corrected
        /\ error_cov_post' = ErrorCovCorrected(covPre, gain)
        /\ kalman_fed' = Append(kalman_fed, z)
        /\ kalman_correction' = [i \in 1..3 |-> corrected.pos[i] - pre.pos[i]]

(***************************************************************************)
(* Specifications                                                          *)
(***************************************************************************)
InitClock ==
    /\ now = StartOfTime
    /\ op = "init"
    /\ steps = 0

\* the blink detector alone, fed frames of both kinds at two frame gaps
InitBlink ==
    /\ InitClock
    /\ InitDetector
    /\ consecutive_frames \in ConsecutiveFramesChoices
    /\ InitCalibration
    /\ background_mode = FALSE
    /\ InitDirection
    /\ pattern = <<>>
    /\ InitGaze
    /\ InitScores
    /\ InitTrials
    /\ InitBridge
    /\ InitKalman

BlinkFrame ==
    /\ steps < MaxBlinkSteps
    /\ \E dt \in BlinkGaps, lh \in EyeHeights, lw \in EyeWidths,
          rh \in EyeHeights, rw \in EyeWidths :
            ProcessLandmarks(dt, lh, lw, rh, rw)
    /\ UNCHANGED <<calVars, dirVars, gazeVars, scoreVars, trialVars, bridgeVars, kalmanVars>>

BlinkErrorFrame ==
    /\ steps < MaxBlinkSteps
    /\ \E dt \in BlinkGaps : ProcessLandmarksError(dt)
    /\ UNCHANGED <<calVars, dirVars, gazeVars, scoreVars, trialVars, bridgeVars, kalmanVars>>

NextBlink == BlinkFrame \/ BlinkErrorFrame

SpecBlink == InitBlink /\ [][NextBlink]_vars

\* the calibration of one session, in either mode
InitCal ==
    /\ InitClock
    /\ InitDetector
    /\ consecutive_frames = DefaultConsecutiveFrames
    /\ InitCalibration
    /\ background_mode \in BOOLEAN
    /\ InitDirection
    /\ pattern = <<>>
    /\ InitGaze
    /\ InitScores
    /\ InitTrials
    /\ InitBridge
    /\ InitKalman

CalRun ==
    /\ steps < MaxCalSteps
    /\ Run
    /\ UNCHANGED <<blinkVars, dirVars, gazeVars, scoreVars, trialVars, bridgeVars, kalmanVars>>

CalStart ==
    /\ steps < MaxCalSteps
    /\ KeyCalibrate
    /\ UNCHANGED <<blinkVars, dirVars, gazeVars, scoreVars, trialVars, bridgeVars, kalmanVars>>

CalFrame ==
    /\ steps < MaxCalSteps
    /\ \E dt \in CalGaps, geom \in Poses : ProcessFramePose(dt, geom)
    /\ UNCHANGED <<blinkVars, dirVars, gazeVars, scoreVars, trialVars, bridgeVars, kalmanVars>>

CalNoFace ==
    /\ steps < MaxCalSteps
    /\ ProcessFrameNoFace
    /\ UNCHANGED <<blinkVars, dirVars, gazeVars, scoreVars, trialVars, bridgeVars, kalmanVars>>

NextCal == CalRun \/ CalStart \/ CalFrame \/ CalNoFace

SpecCal == InitCal /\ [][NextCal]_vars

\* the direction classifier on a periodic stream of filtered poses
InitDir ==
    /\ InitClock
    /\ InitDetector
    /\ consecutive_frames = DefaultConsecutiveFrames
    /\ InitCalibration
    /\ background_mode = FALSE
    /\ InitDirection
    /\ pattern \in Patterns
    /\ InitGaze
    /\ InitScores
    /\ InitTrials
    /\ InitBridge
    /\ InitKalman

DirFrame ==
    /\ steps < MaxDirFrames
    /\ UpdateHeadDirection(NextPose[1], NextPose[2])
    /\ UNCHANGED <<blinkVars, calVars, gazeVars, scoreVars, trialVars, bridgeVars, kalmanVars>>

NextDir == DirFrame

SpecDir == InitDir /\ [][NextDir]_vars

\* the blink detector and the gaze tracker of process_frame, lines 1044-1080,
\* on frames with a face
InitGazeSpec ==
    /\ InitClock
    /\ InitDetector
    /\ consecutive_frames = DefaultConsecutiveFrames
    /\ InitCalibration
    /\ background_mode = FALSE
    /\ InitDirection
    /\ pattern = <<>>
    /\ InitGaze
    /\ InitScores
    /\ InitTrials
    /\ InitBridge
    /\ InitKalman

GazeFrame ==
    /\ steps < MaxGazeFrames
    /\ \E dt \in GazeGaps, eye \in EyeShapes, gaze \in GazePoints :
        /\ now' = now + dt
        /\ op' = "process_frame"
        /\ steps' = steps + 1
        /\ BlinkUpdate(now + dt, dt, eye[1], eye[2], eye[1], eye[2])
        /\ current_blink' = UpdateCurrentBlink(current_blink, blink_results')
        /\ blink_metrics' = UpdateBlinkMetrics(blink_metrics, current_blink',
                                               blink_results', now')
        /\ ProcessEyeMetrics(now + dt, gaze, current_blink'.blinking, current_direction)
    /\ UNCHANGED <<calVars, dirVars, scoreVars, trialVars, bridgeVars, kalmanVars>>

NextGaze == GazeFrame

SpecGaze == InitGazeSpec /\ [][NextGaze]_vars

\* one headless session, frame by frame.  A face is in view from the first
\* frame or from frame QuietFrames + 1 on; the frames before it are
\* FrameQuiet steps, which the budget of MaxFrameSteps does not count
InitFrame ==
    /\ InitClock
    /\ InitDetector
    /\ consecutive_frames = DefaultConsecutiveFrames
    /\ InitCalibration
    /\ background_mode = TRUE
    /\ InitDirection
    /\ pattern = <<>>
    /\ InitGaze
    /\ InitScores
    /\ InitTrials
    /\ InitBridge
    /\ InitKalman

FrameBudget ==
    /\ quiet_frames \in {0, QuietFrames}
    /\ steps - quiet_frames < MaxFrameSteps

FrameRun ==
    /\ FrameBudget
    /\ Run
    /\ UNCHANGED <<blinkVars, dirVars, gazeVars, scoreVars, trialVars, bridgeVars, kalmanVars>>

FrameQuiet ==
    /\ steps = quiet_frames + 1
    /\ quiet_frames < QuietFrames
    /\ ProcessFrameWithoutFace
    /\ quiet_frames' = quiet_frames + 1
    /\ UNCHANGED <<bridgeVars, kalmanVars>>

FrameFace ==
    /\ FrameBudget
    /\ \E in \in FrameInputs :
          ProcessFrame(in.dt, in.n, in.eye, in.gaze, in.geom, in.pose)
    /\ UNCHANGED <<quiet_frames, bridgeVars, kalmanVars>>

FrameNoFace ==
    /\ FrameBudget
    /\ ProcessFrameWithoutFace
    /\ UNCHANGED <<quiet_frames, bridgeVars, kalmanVars>>

FramePoseRaises ==
    /\ FrameBudget
    /\ \E in \in ShortFrameInputs : ProcessFramePoseRaises(in.dt, in.n)
    /\ UNCHANGED <<quiet_frames, bridgeVars, kalmanVars>>

FrameGazeRaises ==
    /\ FrameBudget
    /\ \E in \in ShortFrameInputs :
          ProcessFrameGazeRaises(in.dt, in.n, in.geom, in.pose)
    /\ UNCHANGED <<quiet_frames, bridgeVars, kalmanVars>>

FrameStop ==
    /\ FrameBudget
    /\ StopSession
    /\ UNCHANGED <<quiet_frames, bridgeVars, kalmanVars>>

NextFrame ==
    \/ FrameRun
    \/ FrameQuiet
    \/ FrameFace
    \/ FrameNoFace
    \/ FramePoseRaises
    \/ FrameGazeRaises
    \/ FrameStop

SpecFrame == InitFrame /\ [][NextFrame]_vars

\* the blink detector over minutes: frames a frame period apart, or after a
\* gap longer than the window of the blink timestamps
LongGap == TimestampWindow + FramePeriod

RateFrame ==
    /\ steps < MaxRateSteps
    /\ \E dt \in {FramePeriod, LongGap}, eye \in EyeShapes :
          ProcessLandmarks(dt, eye[1], eye[2], eye[1], eye[2])
    /\ UNCHANGED <<calVars, dirVars, gazeVars, scoreVars, trialVars, bridgeVars, kalmanVars>>

NextRate == RateFrame

SpecRate == InitGazeSpec /\ [][NextRate]_vars

\* one headless session whose driver starts and ends trials between frames
TrialFrameInputs ==
    { [dt |-> FramePeriod, n |-> 478, eye |-> <<3, 10>>, gaze |-> <<0, 0>>,
       geom |-> <<0, 0, 0>>, pose |-> <<0, 0>>],
      [dt |-> FramePeriod, n |-> 478, eye |-> <<3, 10>>, gaze |-> <<130, 0>>,
       geom |-> <<6, 2, -3>>, pose |-> <<12, 0>>] }

TrialRun ==
    /\ steps < MaxTrialSteps
    /\ Run
    /\ UNCHANGED <<blinkVars, dirVars, gazeVars, scoreVars, trialVars, bridgeVars, kalmanVars>>

TrialFace ==
    /\ steps < MaxTrialSteps
    /\ \E in \in TrialFrameInputs :
          ProcessFrame(in.dt, in.n, in.eye, in.gaze, in.geom, in.pose)
    /\ UNCHANGED <<quiet_frames, bridgeVars, kalmanVars>>

TrialNoFace ==
    /\ steps < MaxTrialSteps
    /\ ProcessFrameWithoutFace
    /\ UNCHANGED <<quiet_frames, bridgeVars, kalmanVars>>

TrialStart ==
    /\ steps < MaxTrialSteps
    /\ running
    /\ now' = now + FramePeriod
    /\ op' = "start_trial"
    /\ steps' = steps + 1
    /\ \E id \in TrialIds : StartTrial(now', id)
    /\ UNCHANGED <<blinkVars, calVars, dirVars, gazeVars, scoreVars, bridgeVars, kalmanVars>>

TrialEnd ==
    /\ steps < MaxTrialSteps
    /\ running
    /\ now' = now + FramePeriod
    /\ op' = "end_trial"
    /\ steps' = steps + 1
    /\ \E id \in TrialIds : EndTrial(now', id)
    /\ UNCHANGED <<blinkVars, calVars, dirVars, gazeVars, scoreVars, bridgeVars, kalmanVars>>

TrialStop ==
    /\ steps < MaxTrialSteps
    /\ StopSession
    /\ UNCHANGED <<quiet_frames, bridgeVars, kalmanVars>>

NextTrial ==
    \/ TrialRun
    \/ TrialFace
    \/ TrialNoFace
    \/ TrialStart
    \/ TrialEnd
    \/ TrialStop

SpecTrial == InitFrame /\ [][NextTrial]_vars

\* the bridge: requests in any order, interleaved with the steps of the
\* background threads
ApiTrialIds == {0, 1}
CoreUnchanged ==
    UNCHANGED <<blinkVars, calVars, dirVars, gazeVars, scoreVars, trialVars, kalmanVars>>

BridgeStartSession == steps < MaxBridgeSteps /\ StartSession /\ CoreUnchanged

BridgeStartTrial ==
    /\ steps < MaxBridgeSteps
    /\ \E id \in ApiTrialIds : StartTrialRequest(id)
    /\ CoreUnchanged

BridgeEndTrial == steps < MaxBridgeSteps /\ EndTrialRequest /\ CoreUnchanged

BridgeEndSession == steps < MaxBridgeSteps /\ EndSession /\ CoreUnchanged

BridgeGetMetrics == steps < MaxBridgeSteps /\ GetCurrentMetrics /\ CoreUnchanged

BridgeGetStatus == steps < MaxBridgeSteps /\ GetStatus /\ CoreUnchanged

BridgeCamera ==
    /\ steps < MaxBridgeSteps
    /\ \E i \in DOMAIN threads, ok \in BOOLEAN : InitializeCamera(i, ok)
    /\ CoreUnchanged

BridgeTest ==
    /\ steps < MaxBridgeSteps
    /\ \E i \in DOMAIN threads, ret \in BOOLEAN : TestMonitoring(i, ret)
    /\ CoreUnchanged

BridgePublish ==
    /\ steps < MaxBridgeSteps
    /\ \E i \in DOMAIN threads : PublishMetrics(i)
    /\ CoreUnchanged

BridgeStamp ==
    /\ steps < MaxBridgeSteps
    /\ \E i \in DOMAIN threads : StampMetrics(i)
    /\ CoreUnchanged

BridgeFind ==
    /\ steps < MaxBridgeSteps
    /\ \E i \in DOMAIN threads : FindTrial(i)
    /\ CoreUnchanged

BridgeAppend ==
    /\ steps < MaxBridgeSteps
    /\ \E i \in DOMAIN threads : AppendToTrial(i)
    /\ CoreUnchanged

NextBridge ==
    \/ BridgeStartSession
    \/ BridgeStartTrial
    \/ BridgeEndTrial
    \/ BridgeEndSession
    \/ BridgeGetMetrics
    \/ BridgeGetStatus
    \/ BridgeCamera
    \/ BridgeTest
    \/ BridgePublish
    \/ BridgeStamp
    \/ BridgeFind
    \/ BridgeAppend

SpecBridge == InitGazeSpec /\ [][NextBridge]_vars

\* the pose filter alone, one update per frame period, each with one of two
\* measured poses (degrees, in AngleScale units)
Measurements == {<<8 * AngleScale, -6 * AngleScale, 0>>,
                 <<-3 * AngleScale, 2 * AngleScale, AngleScale>>}

KalmanFrame ==
    /\ steps < MaxKalmanSteps
    /\ now' = now + FramePeriod
    /\ op' = "kalman_update"
    /\ steps' = steps + 1
    /\ \E z \in Measurements : KalmanUpdate(z[1], z[2], z[3])
    /\ UNCHANGED <<blinkVars, calVars, dirVars, gazeVars, scoreVars, trialVars,
                   bridgeVars>>

NextKalman == KalmanFrame

SpecKalman == InitGazeSpec /\ [][NextKalman]_vars

\* the gaze tracker on frames with open eyes that come far enough apart
\* for a fixation to be recorded on its second frame, so that several
\* fixations fit into a session; the gaze stays or jumps between two points
FixGaps == {4 * FramePeriod, 5 * FramePeriod}
FixGazePoints == {<<0, 0>>, <<130, 0>>}

FixFrame ==
    /\ steps < MaxFixFrames
    /\ \E dt \in FixGaps, gaze \in FixGazePoints :
        /\ now' = now + dt
        /\ op' = "process_frame"
        /\ steps' = steps + 1
        /\ BlinkUpdate(now + dt, dt, 3, 10, 3, 10)
        /\ current_blink' = UpdateCurrentBlink(current_blink, blink_results')
        /\ blink_metrics' = UpdateBlinkMetrics(blink_metrics, current_blink',
                                               blink_results', now')
        /\ ProcessEyeMetrics(now + dt, gaze, current_blink'.blinking, current_direction)
    /\ UNCHANGED <<calVars, dirVars, scoreVars, trialVars, bridgeVars, kalmanVars>>

NextFix == FixFrame

SpecFix == InitGazeSpec /\ [][NextFix]_vars



(***************************************************************************)
(* Properties of the blink detector                                        *)
(***************************************************************************)

\* C1: a blink starts only on a both-closed frame that is at least the
\* consecutive_frames-th of an unbroken run of both-closed frames; a frame
\* that is not both-closed resets the run counter; a shorter run neither
\* starts nor counts a blink.
C1_BlinkStartsOnlyAfterRun ==
    /\ [](blink_in_progress => closed_run >= consecutive_frames)
    /\ [][/\ (~blink_in_progress /\ blink_in_progress')
                => (frame_kind' = "closed" /\ closed_run' >= consecutive_frames)
          /\ frame_kind' = "open" => frames_below_threshold' = 0
          /\ blink_count' # blink_count => closed_run >= consecutive_frames]_vars

C1_Witness ==
    /\ blink_in_progress
    /\ frame_kind = "closed"
    /\ closed_run = consecutive_frames
    /\ blink_count = 0

\* C2: blink_count grows by exactly 1 on the first not-both-closed frame of
\* a blink in progress, which also ends the blink, and changes on no other
\* frame.
C2_OneEventPerBlink ==
    [][/\ blink_count' # blink_count
            => (/\ blink_count' = blink_count + 1
                /\ blink_in_progress
                /\ frame_kind' = "open"
                /\ ~blink_in_progress')
       /\ (blink_in_progress /\ frame_kind' = "open")
            => (blink_count' = blink_count + 1 /\ ~blink_in_progress')]_vars

C2_Witness ==
    /\ blink_count = 2
    /\ ~blink_in_progress
    /\ frame_kind = "open"

\* C3 as stated: with consecutive_frames = 3, five both-closed frames and one
\* open frame, all 1/30 s apart, give one blink of about 167 ms (five frame
\* periods, to within half a frame period).
C3_DurationCoversClosedRun ==
    (scen = 6 /\ consecutive_frames = 3)
        => (blink_count = 1
            /\ Abs(blink_duration - 5 * FramePeriod) <= FramePeriod \div 2)

\* C3 amended: the same frames give one blink whose duration runs from the
\* frame that confirmed the blink (the consecutive_frames-th closed frame)
\* to the open frame: three frame periods, 100 ms, for consecutive_frames = 3.
C3_DurationFromConfirmation ==
    scen = 6
        => (blink_count = 1
            /\ blink_duration = (6 - consecutive_frames) * FramePeriod
            /\ (consecutive_frames = 3 => blink_duration = 100 * TicksPerMs))

C3_Witness ==
    /\ scen = 6
    /\ consecutive_frames = 3
    /\ blink_count = 1
    /\ ~blink_in_progress

(***************************************************************************)
(* Properties of the calibration                                           *)
(***************************************************************************)
OffsetsUnchanged ==
    UNCHANGED <<calibration_yaw_offset, calibration_pitch_offset,
                calibration_roll_offset>>

\* offset * n = the per-axis sum of the buffer
IsMeanOf(offset, samples, axis) ==
    /\ Len(samples) >= 1
    /\ FracEq(Frac(offset[1] * Len(samples), offset[2]), FracSumAxis(samples, axis))

AsSample(geom) == <<Frac(geom[1], 1), Frac(geom[2], 1), Frac(geom[3], 1)>>

\* the process_calibration call that completes a calibration
CompletingCall ==
    /\ op' = "process_frame"
    /\ calibration_result' = "true"
    /\ now' - calibration_start_time >= CalibrationCountdown
    /\ calibration_samples # <<>>
    /\ calibration_samples' = calibration_samples
    /\ IsMeanOf(calibration_yaw_offset', calibration_samples, 1)
    /\ IsMeanOf(calibration_pitch_offset', calibration_samples, 2)
    /\ IsMeanOf(calibration_roll_offset', calibration_samples, 3)

\* what process_calibration does when it does not complete
OtherCalls ==
    /\ (op' = "process_frame" /\ calibration_result' = "false"
        /\ now' - calibration_start_time >= CalibrationCountdown)
            => (/\ calibration_samples = <<>>
                /\ calibration_samples' = <<>>
                /\ ~calibrated'
                /\ OffsetsUnchanged)
    /\ (op' = "process_frame" /\ calibration_result' \in {"true", "false"}
        /\ now' - calibration_start_time < CalibrationCountdown)
            => (/\ calibration_result' = "false"
                /\ calibration_samples' = Append(calibration_samples, AsSample(in_pose'))
                /\ ~calibrated'
                /\ OffsetsUnchanged)

\* C4 as stated: calibrated becomes true only through a completing
\* process_calibration call, which returns true and sets the offsets to the
\* means; past the countdown with an empty buffer the call returns false and
\* changes nothing; before the countdown each call appends one sample.
C4_CalibratedOnlyByProcessCalibration ==
    [][/\ (~calibrated /\ calibrated') => CompletingCall
       /\ calibration_result' = "true" => (CompletingCall /\ calibrated')
       /\ OtherCalls]_vars

\* C4 amended: calibrated becomes true only through a completing
\* process_calibration call or through run() in background mode, which
\* marks the agent calibrated with no sample and leaves the offsets alone.
C4_CalibratedByCallOrBackgroundRun ==
    [][/\ (~calibrated /\ calibrated')
            => \/ CompletingCall
               \/ (/\ op' = "run"
                   /\ background_mode
                   /\ OffsetsUnchanged
                   /\ UNCHANGED calibration_samples)
       /\ calibration_result' = "true" => (CompletingCall /\ calibrated')
       /\ OtherCalls]_vars

C4_Witness ==
    /\ calibrated
    /\ ~background_mode
    /\ calibration_result = "true"
    /\ Len(calibration_samples) = 2
    /\ ~FracIsZero(calibration_yaw_offset)

\* C5: start_calibration empties the buffer and clears calibrated from any
\* state, a second call in a row changes nothing but the start time, and
\* until the calibration completes no offset is subtracted: the pose of a
\* frame and the sample collected from it are the unadjusted pose.
C5_IdempotentRestart ==
    /\ [](op = "start_calibration" => (calibration_samples = <<>> /\ ~calibrated))
    /\ []((~calibrated /\ op = "process_frame" /\ face_detected)
            => <<raw_yaw, raw_pitch, raw_roll>> = AsSample(in_pose))
    /\ [][/\ (op = "start_calibration" /\ op' = "start_calibration")
                => UNCHANGED <<background_mode, running, calibrated,
                               calibration_samples, calibration_yaw_offset,
                               calibration_pitch_offset, calibration_roll_offset,
                               raw_yaw, raw_pitch, raw_roll, face_detected>>
          /\ (calibration_samples' # calibration_samples /\ calibration_samples' # <<>>)
                => calibration_samples' = Append(calibration_samples, AsSample(in_pose'))]_vars

C5_Witness ==
    /\ ~calibrated
    /\ ~FracIsZero(calibration_yaw_offset)
    /\ op = "process_frame"
    /\ face_detected
    /\ calibration_samples # <<>>

\* C6: the offset is never partially applied: a calibrated agent has either
\* three zero offsets or three offsets that are the means of the one buffer
\* (of at least one sample), and a frame's pose has all three subtracted
\* when calibrated and none when not.
C6_OffsetNeverPartial ==
    /\ calibrated
        => \/ (/\ FracIsZero(calibration_yaw_offset)
               /\ FracIsZero(calibration_pitch_offset)
               /\ FracIsZero(calibration_roll_offset))
           \/ (/\ IsMeanOf(calibration_yaw_offset, calibration_samples, 1)
               /\ IsMeanOf(calibration_pitch_offset, calibration_samples, 2)
               /\ IsMeanOf(calibration_roll_offset, calibration_samples, 3))
    /\ (op = "process_frame" /\ face_detected)
        => \/ (~calibrated /\ <<raw_yaw, raw_pitch, raw_roll>> = AsSample(in_pose))
           \/ (/\ calibrated
               /\ FracEq(raw_yaw, FracSub(Frac(in_pose[1], 1), calibration_yaw_offset))
               /\ FracEq(raw_pitch, FracSub(Frac(in_pose[2], 1), calibration_pitch_offset))
               /\ FracEq(raw_roll, FracSub(Frac(in_pose[3], 1), calibration_roll_offset)))

C6_Witness ==
    /\ calibrated
    /\ op = "process_frame"
    /\ face_detected
    /\ ~FracIsZero(calibration_roll_offset)
    /\ ~FracIsZero(raw_roll)

AllSamplesAre(samples, geom) ==
    \A i \in 1..Len(samples) : samples[i] = AsSample(geom)

\* C7: after a calibration whose samples all carry the pose p, a frame with
\* pose p has adjusted yaw and pitch 0, no larger than the raw values.
C7_BiasRemoved ==
    (/\ calibrated
     /\ calibration_samples # <<>>
     /\ AllSamplesAre(calibration_samples, in_pose)
     /\ op = "process_frame"
     /\ face_detected)
        => (/\ FracIsZero(raw_yaw)
            /\ FracIsZero(raw_pitch)
            /\ Abs(raw_yaw[1]) <= Abs(in_pose[1]) * raw_yaw[2]
            /\ Abs(raw_pitch[1]) <= Abs(in_pose[2]) * raw_pitch[2])

C7_Witness ==
    /\ calibrated
    /\ Len(calibration_samples) >= 2
    /\ AllSamplesAre(calibration_samples, in_pose)
    /\ in_pose = <<4, -2, 1>>
    /\ op = "process_frame"
    /\ face_detected
    /\ FracIsZero(raw_yaw)

(***************************************************************************)
(* Properties of the head direction and screen attention                   *)
(***************************************************************************)

\* C8: LEFT if yaw < -threshold, RIGHT if yaw > threshold, otherwise UP if
\* pitch < -threshold, DOWN if pitch > threshold, otherwise CENTER; yaw 12,
\* pitch 0 is RIGHT.
C8_YawOverridesPitch ==
    op = "update_head_direction"
        => /\ current_direction =
                (IF head_yaw < -YawThreshold THEN "LEFT"
                 ELSE IF head_yaw > YawThreshold THEN "RIGHT"
                 ELSE IF head_pitch < -PitchThreshold THEN "UP"
                 ELSE IF head_pitch > PitchThreshold THEN "DOWN"
                 ELSE "CENTER")
           /\ (head_yaw = 12 /\ head_pitch = 0) => current_direction = "RIGHT"

C8_Witness ==
    /\ op = "update_head_direction"
    /\ head_yaw < -YawThreshold
    /\ head_pitch > PitchThreshold
    /\ current_direction = "LEFT"

\* the raw flags of the last n frames of the stream, oldest first
RecentFlags(n) ==
    [i \in 1..n |->
        LET pose == pattern[((steps - n + i - 1) % Len(pattern)) + 1]
        IN  RawLooking(pose[1], pose[2])]

PatternFlags == [i \in 1..Len(pattern) |-> RawLooking(pattern[i][1], pattern[i][2])]

\* C9: after every update the window holds the raw flags of the most recent
\* frames, at most 30 of them, and looking_at_monitor is true only if at
\* least 0.7 of them are true; on the stream false, false, false, true it
\* is false after each of the first 40 frames.
C9_HystereticAttention ==
    op = "update_head_direction"
        => /\ Len(screen_attention_history) = (IF steps < 30 THEN steps ELSE 30)
           /\ screen_attention_history = RecentFlags(Len(screen_attention_history))
           /\ looking_at_monitor
                => 10 * CountTrue(screen_attention_history)
                        >= 7 * Len(screen_attention_history)
           /\ (PatternFlags = <<FALSE, FALSE, FALSE, TRUE>> /\ steps <= 40)
                => ~looking_at_monitor

C9_Witness ==
    /\ PatternFlags = <<FALSE, FALSE, FALSE, TRUE>>
    /\ steps = 40
    /\ Len(screen_attention_history) = 30
    /\ CountTrue(screen_attention_history) > 0
    /\ ~looking_at_monitor

\* C10: gaze_shift_count is incremented exactly on the frames on which
\* looking_at_monitor flips, so it equals the number of flips.
C10_GazeShiftCountsFlips ==
    gaze_shift_count = flips

(***************************************************************************)
(* Properties of the gaze tracker                                          *)
(***************************************************************************)
FixationRecordUnchanged ==
    /\ fixation_count' = fixation_count
    /\ total_fixation_time' = total_fixation_time
    /\ fixation_history' = fixation_history

\* C11: a fixation is recorded (fixation_count incremented, history entry
\* appended) only on the frame that breaks an unbroken run of frames with
\* sub-threshold gaze distance (or blinking) that has lasted at least
\* 100 ms; a run broken before 100 ms changes neither fixation_count,
\* total_fixation_time nor fixation_history.
C11_FixationNeedsMinimumHold ==
    /\ [](Len(fixation_history) = fixation_count)
    /\ [][/\ ~FixationRecordUnchanged
                => (/\ gaze_kind' = "break"
                    /\ held_for >= MinFixation
                    /\ fixation_duration <= held_for
                    /\ fixation_count' = fixation_count + 1
                    /\ total_fixation_time' = total_fixation_time + fixation_duration
                    /\ Len(fixation_history') = Len(fixation_history) + 1)
          /\ (gaze_kind' = "break" /\ held_for < MinFixation)
                => FixationRecordUnchanged]_vars

C11_Witness ==
    /\ gaze_kind = "break"
    /\ fixation_count = 1
    /\ Len(fixation_history) = 1
    /\ fixation_history[1].duration > MinFixation

\* C12: on every frame on which the blink detector reports blinking,
\* whatever the gaze distance, the current fixation is not reset, no fixation
\* is sealed and no saccade is recorded; a fixation starts only on a frame
\* on which blinking is false.
C12_BlinkKeepsFixation ==
    [][/\ (op' = "process_frame" /\ current_blink'.blinking)
            => (/\ fixation_point' = fixation_point
                /\ fixation_start_time' = fixation_start_time
                /\ FixationRecordUnchanged
                /\ saccade_count' = saccade_count
                /\ saccade_times' = saccade_times
                /\ gaze_kind' = "hold")
       /\ (fixation_point = <<>> /\ fixation_point' # <<>>)
            => ~current_blink'.blinking]_vars

C12_Witness ==
    /\ current_blink.blinking
    /\ gaze_far
    /\ gaze_kind = "hold"
    /\ fixation_point # <<>>
    /\ fixation_duration > 0

\* C13 as stated: when a non-blinking frame with gaze distance at or above
\* fixation_threshold breaks a fixation whose duration is at least 100 ms,
\* exactly 100 ms included, fixation_count grows by 1 and the duration is
\* added to total_fixation_time.
C13_SealsFromExactlyMinimum ==
    [][(/\ op' = "process_frame"
        /\ gaze_kind' = "break"
        /\ fixation_point # <<>>
        /\ fixation_duration >= MinFixation)
            => (/\ fixation_count' = fixation_count + 1
                /\ total_fixation_time' = total_fixation_time + fixation_duration)]_vars

\* C14: screen_attention_ratio stays within [0, 1] in every reachable state.
C14_RatioInUnitInterval ==
    /\ screen_attention_ratio[2] > 0
    /\ 0 <= screen_attention_ratio[1]
    /\ screen_attention_ratio[1] <= screen_attention_ratio[2]

C14_Witness ==
    /\ op = "process_frame"
    /\ ~last_known_in_bounds
    /\ 0 < screen_attention_ratio[1]
    /\ screen_attention_ratio[1] < screen_attention_ratio[2]

(***************************************************************************)
(* Properties of the scores                                                *)
(***************************************************************************)
InRange(score) ==
    /\ score[2] > 0
    /\ 0 <= score[1]
    /\ score[1] <= 100 * score[2]

\* the blink_normalcy the claim gives for a rate
StatedNormalcy(rate) ==
    IF RateBelow(rate, 5) \/ RateAbove(rate, 40) THEN 5
    ELSE IF RateBelow(rate, 10) \/ RateAbove(rate, 30) THEN 10
    ELSE 20

\* the sum the claim caps at 100
StatedAttention(ratio, head_stillness, blink_normalcy) ==
    FracMin(Frac(100, 1),
            FracAdd(GazeAttention(ratio), Frac(head_stillness + blink_normalcy, 1)))

\* C15 as stated: attention_score = min(100, 50 * screen_attention_ratio +
\* head_stillness + blink_normalcy), where blink_normalcy is 20 nominally,
\* 10 if the blink rate is below 10 or above 30 per minute and 5 if it is
\* below 5 or above 40 per minute; checked on every logged row and on the
\* score of the session summary.
C15_AttentionScoreFormula ==
    /\ log_row.logged
        => /\ log_row.blink_normalcy = StatedNormalcy(log_row.blink_rate)
           /\ log_row.attention_score
                = StatedAttention(log_row.ratio, log_row.head_stillness,
                                  StatedNormalcy(log_row.blink_rate))
    /\ session_scores.summarised
        => session_scores.attention_score
             = StatedAttention(screen_attention_ratio,
                               IF current_direction = "CENTER" THEN 30 ELSE 15,
                               StatedNormalcy(current_blink.rate_per_minute))

\* C16 as stated: when a direction change or a micro-movement fired on the
\* frame being scored, the row computed for that frame has head_stillness
\* reduced by 10 (floored at 0) and movement_stress raised by 20 for each of
\* the two.
C16_MovementShowsInScores ==
    (log_row.logged /\ log_row.at_frame = frame_count /\ (moved \/ jittered))
        => /\ log_row.head_stillness
                = Max(0, (IF log_row.direction = "CENTER" THEN 30 ELSE 15) - 10)
           /\ log_row.movement_stress
                = (IF moved THEN 20 ELSE 0) + (IF jittered THEN 20 ELSE 0)

\* the blink_rate_stress the claim gives for a rate
StatedBlinkStress(rate) ==
    IF RateBelow(rate, 3) \/ RateAbove(rate, 40) THEN 30
    ELSE IF RateBelow(rate, 5) \/ RateAbove(rate, 30) THEN 15
    ELSE 0

\* the part of the stress score that does not depend on movement
StatedRestingStress(last_duration, rate) ==
    (IF last_duration > 400 * TicksPerMs THEN 30 ELSE 0) + StatedBlinkStress(rate)

\* C17 as stated: stress_score = min(100, stress_from_microsleep +
\* blink_rate_stress + movement_stress), with 30 for a blink longer than
\* 400 ms, 15 or 30 for a blink rate outside [5, 30] or [3, 40], and 20 for
\* each of micro-movement and direction change; checked on every logged row,
\* with the movement events as log_data found them, and on the score of the
\* session summary, with any movement_stress the claim allows.
C17_StressScoreFormula ==
    /\ log_row.logged
        => log_row.stress_score
             = Min(100, StatedRestingStress(log_row.last_duration, log_row.blink_rate)
                        + (IF log_row.micro_movement THEN 20 ELSE 0)
                        + (IF log_row.head_movement THEN 20 ELSE 0))
    /\ session_scores.summarised
        => \E movement_stress \in {0, 20, 40} :
              session_scores.stress_score
                = Min(100, StatedRestingStress(current_blink.last_duration,
                                               current_blink.rate_per_minute)
                           + movement_stress)

\* C18: every attention_score and stress_score computed, by log_data or for
\* the session summary, lies in [0, 100].
C18_ScoresInRange ==
    /\ log_row.logged
        => /\ InRange(log_row.attention_score)
           /\ log_row.stress_score \in 0..100
    /\ session_scores.summarised
        => /\ InRange(session_scores.attention_score)
           /\ session_scores.stress_score \in 0..100

C18_Witness ==
    /\ log_row.logged
    /\ session_scores.summarised
    /\ log_row.stress_score = 60
    /\ log_row.direction # "CENTER"
    /\ FracLess(Frac(25, 1), log_row.attention_score)
    /\ FracLess(log_row.attention_score, Frac(100, 1))

(***************************************************************************)
(* Properties of the error handling                                        *)
(***************************************************************************)

\* C19 as stated: pose estimation never raises; on a frame whose landmark
\* list lacks an index the pose needs, detect_head_pose returns (0, 0, 0)
\* and face_detected is false.
C19_PoseNeverRaises ==
    (op = "process_frame" /\ landmark_count > 0
        /\ ~Present(landmark_count, PoseIndices))
        => /\ raised = "none"
           /\ ~face_detected
           /\ FracIsZero(raw_yaw) /\ FracIsZero(raw_pitch) /\ FracIsZero(raw_roll)

\* C20 as stated: when gaze tracking fails on a frame, the other subsystems
\* are still computed for that frame: the head direction is the one of the
\* frame's filtered pose and update_head_direction has run on it.
C20_FailureIsolated ==
    raised = "process_eye_metrics"
        => /\ current_direction = ClassifyDirection(head_yaw, head_pitch)
           /\ prev_head_yaw = head_yaw
           /\ prev_head_pitch = head_pitch

(***************************************************************************)
(* Properties of frames without a face                                     *)
(***************************************************************************)
NoFaceStep == op' = "process_frame" /\ steps' = steps + 1 /\ landmark_count' = 0

NoFaceSoFar == frame_kind = "none" /\ landmark_count = 0

\* 0 * 50 for the gaze, 30 for the head and 10 for the blink rate
NoFaceAttention == Frac(40, 1)

\* C22: while no frame of the session has had a face, every attention score
\* computed, in a logged row or for the summary at the end, is one and the
\* same value, that of the initial state of the components, and nothing has
\* raised an exception.
C22_NoFaceSessionScores ==
    NoFaceSoFar =>
        /\ raised = "none"
        /\ log_row.logged => FracEq(log_row.attention_score, NoFaceAttention)
        /\ session_scores.summarised =>
              FracEq(session_scores.attention_score, NoFaceAttention)

\* a session of LogPeriod frames or more, none with a face, has ended
C22_Witness ==
    /\ NoFaceSoFar
    /\ frame_count >= LogPeriod
    /\ session_scores.summarised
    /\ log_row.logged

(***************************************************************************)
(* Properties of the blink counters and the blink rate                     *)
(***************************************************************************)
\* C23: blink_count and micro_sleep_count never decrease, on frames that
\* take the error path of the detector included.
C23_CountersNeverDecrease ==
    [][blink_count' >= blink_count /\ micro_sleep_count' >= micro_sleep_count]_vars

\* the detector took its error path after a micro-sleep was counted
C23_Witness ==
    /\ frame_kind = "error"
    /\ blink_count > 0
    /\ micro_sleep_count > 0

\* C24: micro_sleep_count goes up by exactly 1 on a frame that ends a blink
\* of more than 400 ms and stays as it is on every other frame, so that
\* micro_sleep_count <= blink_count always.
C24_MicroSleepPerLongBlink ==
    /\ [](micro_sleep_count <= blink_count)
    /\ [][LET ends == blink_in_progress /\ ~blink_in_progress'
          IN  micro_sleep_count' =
                 IF ends /\ blink_duration' > MicroSleepLimit
                 THEN micro_sleep_count + 1 ELSE micro_sleep_count]_vars

\* a short blink and a long one have ended
C24_Witness ==
    /\ blink_count = 2
    /\ micro_sleep_count = 1
    /\ frame_kind = "open"

\* C25: on every frame the reported blink rate counts the blink timestamps
\* of the 60 s before the frame and no older one, whether or not a blink
\* has ended since.
C25_RateCountsTrailingWindow ==
    frame_kind \in {"open", "closed"} =>
        blink_results.rate_per_minute =
            BlinkRate(Len(RecentTimestamps(blink_timestamps, now)),
                      now - detector_start_time)

(***************************************************************************)
(* Properties of the trial records                                         *)
(***************************************************************************)
\* C26: start_trial(id) creates the record of the trial and activates it;
\* end_trial(id) on the active trial returns the trial result, appends
\* exactly one record, for id, to trials_data and deactivates the trial;
\* no other step, and no frame after end_trial, changes trials_data, and
\* the records already in it are never changed.
C26_TrialLifecycle ==
    [][LET id == trial_return'.id
           starts == op' = "start_trial" /\ steps' = steps + 1
           ends == op' = "end_trial" /\ steps' = steps + 1
       IN  /\ starts =>
                 /\ id \in DOMAIN trial_data'
                 /\ trial_data'[id].start_time = now'
                 /\ trial_data'[id].attention_samples = <<>>
                 /\ is_trial_active'
                 /\ current_trial_id' = id
           /\ (ends /\ is_trial_active /\ current_trial_id = id) =>
                 /\ trial_return'.value = "trial_result"
                 /\ Len(trials_data') = Len(trials_data) + 1
                 /\ trials_data'[Len(trials_data')].trial_id = id
                 /\ ~is_trial_active'
           /\ \A k \in DOMAIN trials_data :
                 k \in DOMAIN trials_data' /\ trials_data'[k] = trials_data[k]
           /\ ~ends => trials_data' = trials_data]_vars

\* a trial that sampled a frame has ended, and a frame with a face has been
\* processed since
C26_Witness ==
    /\ trials_data # <<>>
    /\ trials_data[1].gaze_on_screen_pct = 100
    /\ ~is_trial_active
    /\ op = "process_frame"
    /\ face_detected

(***************************************************************************)
(* Properties of the bridge                                                *)
(***************************************************************************)
\* C27: every non-empty value of current_metrics that a request handler
\* reads is a complete snapshot of one loop iteration, its timestamp
\* included, and a dictionary is never modified once it has been assigned
\* to current_metrics.
C27_SnapshotsPublishedWhole ==
    /\ [](last_read.has /\ last_read.metrics.filled =>
             /\ last_read.metrics.stamped
             /\ last_read.metrics.stamped_by = last_read.metrics.by)
    /\ [][\A k \in DOMAIN metrics_objects :
             metrics_objects'[k] = metrics_objects[k]]_vars

\* C28: at most one background thread is inside the body of a monitoring
\* loop at any time.
C28_SingleMonitoringThread ==
    Cardinality({i \in DOMAIN threads : threads[i].pc \in BodyPcs}) <= 1

FromCurrentSession(m) == m.by # 0 => threads[m.by].session = current_session_id

StampedInCurrentSession(m) ==
    m.stamped_by # 0 => threads[m.stamped_by].session = current_session_id

\* C29: from the end of end_session to the next start_session
\* current_metrics and the trial list are empty, and during a session the
\* metrics and the trial records hold nothing written by the thread of an
\* earlier session.
C29_NoCarryOver ==
    /\ (session_ended /\ ~is_monitoring) =>
          /\ MetricsNow = EmptyMetrics
          /\ api_trial_data = <<>>
    /\ is_monitoring =>
          /\ FromCurrentSession(MetricsNow)
          /\ StampedInCurrentSession(MetricsNow)
          /\ \A k \in DOMAIN api_trial_data :
                /\ FromCurrentSession(api_trial_data[k].start_metrics)
                /\ StampedInCurrentSession(api_trial_data[k].start_metrics)
                /\ \A j \in DOMAIN api_trial_data[k].during_trial :
                      /\ FromCurrentSession(api_trial_data[k].during_trial[j])
                      /\ StampedInCurrentSession(api_trial_data[k].during_trial[j])

(***************************************************************************)
(* Properties of the gaze histories                                        *)
(***************************************************************************)
\* the histories hold every saccade and every sealed fixation counted so
\* far: nothing is ever removed from them
HistoriesKeepEveryEvent ==
    /\ Len(saccade_times) = saccade_count
    /\ Len(fixation_history) = fixation_count

\* C30: the lengths of fixation_history and saccade_times stay below a
\* bound that does not grow with the number of frames processed; here the
\* bound is the largest one a session of MaxGazeFrames frames can tell from
\* none, the number of frames that can add an entry (all but the first).
C30_HistoriesBounded ==
    /\ Len(saccade_times) < MaxGazeFrames - 1
    /\ Len(fixation_history) < MaxGazeFrames - 1

(***************************************************************************)
(* Properties of the eye aspect ratio                                      *)
(***************************************************************************)
NonNegative(ratio) == ratio[1] >= 0 /\ ratio[2] > 0

\* C31: on every frame whose landmarks are processed both aspect ratios
\* are non-negative numbers, and an eye whose width is not positive has
\* the ratio 0 and counts as closed.
C31_DegenerateEyeIsClosed ==
    frame_kind \in {"open", "closed"} =>
        /\ ~blink_results.error
        /\ NonNegative(blink_results.left_closed_ratio)
        /\ NonNegative(blink_results.right_closed_ratio)
        /\ eye_widths[1] <= 0 =>
              /\ blink_results.left_closed_ratio = Zero
              /\ blink_results.left_closed
        /\ eye_widths[2] <= 0 =>
              /\ blink_results.right_closed_ratio = Zero
              /\ blink_results.right_closed

\* a frame whose left eye has no width and whose right eye is open
C31_Witness ==
    /\ frame_kind = "open"
    /\ eye_widths[1] = 0
    /\ eye_widths[2] > 0
    /\ blink_results.left_closed
    /\ ~blink_results.right_closed

(***************************************************************************)
(* Properties of the pose filter                                           *)
(***************************************************************************)
SameMeasurement(fed) == \A k \in DOMAIN fed : fed[k] = fed[1]

\* one unit in a thousand of 1.0, above what the rounding of a step can add
FilterTolerance == AngleScale \div 1000

\* C32: while the filter is fed one measurement again and again from its
\* initial state, on every axis the correction of a step is not larger in
\* magnitude than that of the step before, the output does not move away
\* from the measurement, and it does not pass the measurement.
C32_ConvergesMonotonically ==
    [][(kalman_fed' # kalman_fed /\ SameMeasurement(kalman_fed')) =>
          \A i \in 1..3 :
             LET z == kalman_fed'[1][i]
                 out == state_post'.pos[i]
             IN  /\ kalman_fed # <<>> =>
                       Abs(kalman_correction'[i]) <=
                           Abs(kalman_correction[i]) + FilterTolerance
                 /\ Abs(z - out) <= Abs(z - state_post.pos[i]) + FilterTolerance
                 /\ Abs(out) <= Abs(z) + FilterTolerance]_vars

(***************************************************************************)
(* Properties of the end of a session                                      *)
(***************************************************************************)
\* C33: when the run loop ends while a trial is active, the trial is ended
\* and its record is added to trials_data.
C33_SessionEndEndsTrial ==
    [][(op' = "stop" /\ steps' = steps + 1 /\ is_trial_active) =>
          /\ ~is_trial_active'
          /\ Len(trials_data') = Len(trials_data) + 1
          /\ trials_data'[Len(trials_data')].trial_id = current_trial_id]_vars

(***************************************************************************)
(* Properties of the blink variability tracker                             *)
(***************************************************************************)
\* C34: blink_metrics follows the blinks of the detector: while a blink is
\* in progress blink_last_time holds the time it started, and
\* blink_durations holds one entry for every completed blink.
C34_TrackerSeesEveryBlink ==
    /\ blink_in_progress => blink_metrics.blink_last_time = blink_start_time
    /\ Len(blink_metrics.blink_durations) = blink_count

(***************************************************************************)
(* Properties of a refused end_trial                                       *)
(***************************************************************************)
\* C35: end_trial(id) called while no trial is active, or with an id other
\* than that of the active trial, returns False and changes neither
\* is_trial_active, current_trial_id, trial_data nor trials_data.
C35_RefusedEndTrialChangesNothing ==
    [][(/\ op' = "end_trial"
        /\ steps' = steps + 1
        /\ (~is_trial_active \/ current_trial_id # trial_return'.id)) =>
          /\ trial_return'.value = "false"
          /\ is_trial_active' = is_trial_active
          /\ current_trial_id' = current_trial_id
          /\ trial_data' = trial_data
          /\ trials_data' = trials_data]_vars

\* end_trial has just been refused for an id that was started earlier and
\* is not the active one
C35_Witness ==
    /\ op = "end_trial"
    /\ trial_return.value = "false"
    /\ is_trial_active
    /\ trial_return.id # current_trial_id
    /\ trial_return.id \in DOMAIN trial_data

(***************************************************************************)
(* Properties of the trials of the bridge                                  *)
(***************************************************************************)
\* C36: the end_trial request that follows a successful start_trial
\* succeeds and marks the record that start_trial created as ended, and
\* changes no other record.
C36_EndTrialSealsItsOwnRecord ==
    [][(op' = "end_trial" /\ steps' = steps + 1 /\ awaiting_end # 0) =>
          /\ response' = "success"
          /\ Len(api_trial_data') = Len(api_trial_data)
          /\ api_trial_data'[awaiting_end].ended
          /\ \A k \in DOMAIN api_trial_data :
                k # awaiting_end => api_trial_data'[k] = api_trial_data[k]]_vars

\* C37: a step of a background thread appends no sample to a trial record
\* that end_trial has marked as ended.
C37_EndedTrialGetsNoSample ==
    [][\A k \in DOMAIN api_trial_data :
          (/\ api_trial_data[k].ended
           /\ k \in DOMAIN api_trial_data'
           /\ api_trial_data'[k].session = api_trial_data[k].session) =>
              api_trial_data'[k].during_trial = api_trial_data[k].during_trial]_vars

(***************************************************************************)
(* Properties of the request guards of the bridge                          *)
(***************************************************************************)
Refused ==
    /\ response' = "error"
    /\ current_session_id' = current_session_id
    /\ api_current_trial_id' = api_current_trial_id
    /\ session_data' = session_data
    /\ api_trial_data' = api_trial_data

\* C38: start_session during a session, start_trial, end_session and
\* current_metrics outside a session, and end_trial without an active
\* trial answer with an error and change neither the session id, the trial
\* id, the session data nor the trial list.
C38_GuardsRefuseAndKeepState ==
    [][steps' = steps + 1 =>
          /\ (op' = "start_session" /\ is_monitoring) => Refused
          /\ (op' \in {"start_trial", "end_session", "current_metrics"}
                 /\ ~is_monitoring) => Refused
          /\ (op' = "end_trial" /\ api_current_trial_id = 0) => Refused]_vars

\* an end_trial request has been refused in a session that has a trial
\* record
C38_Witness ==
    /\ op = "end_trial"
    /\ response = "error"
    /\ is_monitoring
    /\ api_trial_data # <<>>

(***************************************************************************)
(* Properties of the fixation records                                      *)
(***************************************************************************)
RECURSIVE SumOfDurations(_)
SumOfDurations(history) ==
    IF history = <<>> THEN 0
    ELSE history[1].duration + SumOfDurations(Tail(history))

\* C39: fixation_count is the number of entries of fixation_history,
\* total_fixation_time is the sum of their durations, avg_fixation_time is
\* total_fixation_time / fixation_count once a fixation is recorded, and
\* every entry has a fixation point.
C39_FixationTotalsAgree ==
    /\ fixation_count = Len(fixation_history)
    /\ total_fixation_time = SumOfDurations(fixation_history)
    /\ fixation_count > 0 =>
          FracEq(avg_fixation_time, Frac(total_fixation_time, fixation_count))
    /\ \A k \in DOMAIN fixation_history : fixation_history[k].point # <<>>

\* two fixations of different lengths have been recorded
C39_Witness ==
    /\ fixation_count = 2
    /\ fixation_history[1].duration # fixation_history[2].duration
    /\ avg_fixation_time = Frac(total_fixation_time, 2)

====
